----------------------------- MODULE BlockStore -----------------------------
(***************************************************************************)
(* What the buffer cache promises its callers (the interface at the head of *)
(* bio.c): bread() gives a process sole use of a block with its last        *)
(* content, whether that is on the disk yet or not, until brelse().         *)
(***************************************************************************)
CONSTANTS Users, Blocks, Vals, NoUser

VARIABLES
  content,    \* content[n]: what was last written to block n
  user        \* user[n]: who has block n between bread() and brelse(), or NoUser

storeVars == <<content, user>>

StoreInit ==
  /\ content \in [Blocks -> Vals]
  /\ user = [n \in Blocks |-> NoUser]

StoreGet(p, n) ==
  /\ user[n] = NoUser
  /\ user' = [user EXCEPT ![n] = p]
  /\ UNCHANGED content

StoreModify(p, n, v) ==
  /\ user[n] = p
  /\ content' = [content EXCEPT ![n] = v]
  /\ UNCHANGED user

StoreRelease(p, n) ==
  /\ user[n] = p
  /\ user' = [user EXCEPT ![n] = NoUser]
  /\ UNCHANGED content

StoreNext ==
  \E p \in Users, n \in Blocks :
    \/ StoreGet(p, n) \/ StoreRelease(p, n)
    \/ \E v \in Vals : StoreModify(p, n, v)

StoreSpec == StoreInit /\ [][StoreNext]_storeVars
=============================================================================
