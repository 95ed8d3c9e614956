------------------------------ MODULE KeyStore ------------------------------
(***************************************************************************)
(* What the credential file promises its users: a map from teams to keys,   *)
(* changed one team at a time.  A minting session puts a key only where     *)
(* there is none, a join puts the team's own key.  Only once a writer has   *)
(* died in the middle (disturbed) may an entry be lost or come back.        *)
(***************************************************************************)
CONSTANTS
  Teams, NoKey,
  Minted,  \* keys that sessions make
  Joined   \* keys that joins bring

VARIABLES
  keys,      \* team -> its key, or NoKey
  disturbed  \* some writer was killed while it had the lock

Init == keys = [t \in Teams |-> NoKey] /\ disturbed = FALSE

PutIfAbsent(t, k) ==
  /\ keys[t] = NoKey
  /\ keys' = [keys EXCEPT ![t] = k] /\ UNCHANGED disturbed

Put(t, k) == keys' = [keys EXCEPT ![t] = k] /\ UNCHANGED disturbed

Disturb == disturbed' = TRUE /\ UNCHANGED keys

LoseOrRestore ==
  disturbed /\ keys' \in [Teams -> Minted \cup Joined \cup {NoKey}] /\ UNCHANGED disturbed

Next ==
  \/ \E t \in Teams : \E k \in Minted : PutIfAbsent(t, k)
  \/ \E t \in Teams : \E k \in Joined : Put(t, k)
  \/ Disturb \/ LoseOrRestore

Spec == Init /\ [][Next]_<<keys, disturbed>>
=============================================================================
