----------------------------- MODULE ServingTokens -----------------------------
(***************************************************************************)
(* Serving tokens: the keys and token records of migration 0002, what the  *)
(* store and the service of packages/api/src/sv read and write of them,    *)
(* and the rotation of keys.  Each operator stands for one statement or    *)
(* one synchronous step; the requests that take them are in ServingViews   *)
(* and TileServing.                                                        *)
(*                                                                         *)
(* A token is what its payload says and the key that signed it.  Two mints *)
(* of one view in one second give the same token.                          *)
(***************************************************************************)
EXTENDS Integers, FiniteSets

CONSTANTS Kids,     \* the keys of the system
          Secrets,  \* those whose secret the server was started with
          Ttl,      \* ttl_seconds
          Skew,     \* clockSkewSeconds
          Grace,    \* how long a retiring key stays valid
          Never,    \* the valid_to of a key that has none
          MaxTime   \* bound of the model: the last second

ASSUME ServingTokensAssumption ==
  /\ Secrets \subseteq Kids
  /\ Ttl \in Nat \ {0} /\ Skew \in Nat /\ Grace \in Nat /\ MaxTime \in Nat
  /\ Never \notin Int

VARIABLES now,      \* the clock, in seconds
          keys,     \* serving_keys; "absent" has no row
          records,  \* serving_tokens
          revoked   \* the records with a revoked_at

tokenVars == <<now, keys, records, revoked>>

Seconds == 0..MaxTime
Statuses == {"absent", "active", "retiring", "retired"}
Key == [status : Statuses, from : Seconds, to : Int \cup {Never}]

NoRow == [status |-> "absent", from |-> 0, to |-> Never]

TokensInit ==
  /\ now = 0
  /\ \E k \in Kids :
       keys = [[i \in Kids |-> NoRow] EXCEPT ![k].status = "active"]
  /\ records = {} /\ revoked = {}

-----------------------------------------------------------------------------
(* Minting *)

\* Mutant: a key that is no longer to sign tokens still signs them.
MutMints(k) == keys[k].status # "absent" /\ keys[k].from <= now

\* getActiveKey: a newest key that is active now, if the server can use it.
Mints(k) ==
  /\ keys[k].status = "active" /\ keys[k].from <= now
  /\ keys[k].to = Never \/ keys[k].to > now

ActiveKeys ==
  {k \in Kids : Mints(k) /\ \A i \in Kids : Mints(i) => keys[i].from <= keys[k].from}
    \cap Secrets

Expiry(t) == t.issued + Ttl

\* saveTokenRecord: a token that has a record keeps it, revoked or not.
SaveTokenRecord(t) ==
  /\ records' = records \cup {t}
  /\ UNCHANGED revoked

-----------------------------------------------------------------------------
(* Validation *)

\* Mutant: the status of the key is not looked at.
MutKeyUsable(kid, key) == key.status # "absent" /\ kid \in Secrets

\* getKey finds the row and the secret, and the key is not retired.
KeyUsable(kid, key) == key.status \notin {"absent", "retired"} /\ kid \in Secrets

\* What the service checks against the clock, with the row it was given.
InTime(t, key) ==
  /\ now + Skew >= key.from
  /\ key.to = Never \/ now - Skew <= key.to
  /\ now < Expiry(t) + Skew

\* Mutant: revocation is forgotten.
MutRecordGood(t) == t \in records

\* getTokenRecord: the token was minted here and is not revoked.
RecordGood(t) == t \in records \ revoked

\* The token is good at this moment, whichever part is looked at first.
Sound(t) ==
  /\ t.kid \in Secrets /\ keys[t.kid].status \in {"active", "retiring"}
  /\ InTime(t, keys[t.kid])
  /\ t \in records /\ t \notin revoked

-----------------------------------------------------------------------------
(* The clock, and what operators do by hand (config/serving_views.md)      *)

Tick ==
  /\ now < MaxTime /\ now' = now + 1
  /\ UNCHANGED <<keys, records, revoked>>

\* 1) Create new key as active.
AddKey(k) ==
  /\ keys[k].status = "absent"
  /\ keys' = [keys EXCEPT ![k] = [status |-> "active", from |-> now, to |-> Never]]
  /\ UNCHANGED <<now, records, revoked>>

\* 2) Mark the previous active key as retiring, with valid_to.
RetireKey(k) ==
  /\ keys[k].status = "active"
  /\ \E i \in Kids \ {k} : keys[i].status = "active"
  /\ keys' = [keys EXCEPT ![k].status = "retiring", ![k].to = now + Grace]
  /\ UNCHANGED <<now, records, revoked>>

\* 3) After the grace window, mark it as retired.
DropKey(k) ==
  /\ keys[k].status = "retiring" /\ keys[k].to <= now
  /\ keys' = [keys EXCEPT ![k].status = "retired"]
  /\ UNCHANGED <<now, records, revoked>>

Revoke(t) ==
  /\ t \in records \ revoked
  /\ revoked' = revoked \cup {t}
  /\ UNCHANGED <<now, keys, records>>

=============================================================================
