------------------------------ MODULE CastMemo ------------------------------
(***************************************************************************)
(* What a cache of cast verdicts promises, with no cache in it: a thread   *)
(* asks for the verdict on a key, and either the key is known good because *)
(* some earlier cast with that key was matched, or the cast is checked.    *)
(* A memo may forget (answer "checked" for a known key) but never invents  *)
(* a match.  CastCache is shown to implement it.                           *)
(***************************************************************************)
CONSTANTS Threads, CacheKeys

VARIABLES
  known,   \* the keys of the casts a check has matched
  answer   \* per thread, how its last cast was answered, and its key

memoVars == << known, answer >>

Answers == { "none", "asked", "cached", "matched", "unmatched" }

MemoInit ==
  /\ known = {}
  /\ answer \in [Threads -> {[how |-> "none", key |-> k] : k \in CacheKeys}]

Ask(p, k) ==
  /\ answer' = [answer EXCEPT ![p] = [how |-> "asked", key |-> k]]
  /\ UNCHANGED known

\* A hit is allowed only for a key that was matched before.
Recall(p) ==
  /\ answer[p].how = "asked"
  /\ answer[p].key \in known
  /\ answer' = [answer EXCEPT ![p].how = "cached"]
  /\ UNCHANGED known

Learn(p) ==
  /\ answer[p].how = "asked"
  /\ known' = known \cup {answer[p].key}
  /\ answer' = [answer EXCEPT ![p].how = "matched"]

Reject(p) ==
  /\ answer[p].how = "asked"
  /\ answer' = [answer EXCEPT ![p].how = "unmatched"]
  /\ UNCHANGED known

MemoNext ==
  \E p \in Threads :
    \/ \E k \in CacheKeys : Ask(p, k)
    \/ Recall(p)
    \/ Learn(p)
    \/ Reject(p)

MemoSpec == MemoInit /\ [][MemoNext]_memoVars
=============================================================================
