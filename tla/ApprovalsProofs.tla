-------------------------- MODULE ApprovalsProofs --------------------------
(***************************************************************************)
(* Proofs about Approvals, for any calls, turns, wakers, messages and      *)
(* operator requests, any faults and any number of restarts.               *)
(*                                                                         *)
(* That a hold is redeemed once, and only when somebody approved it, is    *)
(* not inductive.  IInv adds what the approval passes through on its way:  *)
(* an answer of a thread that approves was given by an approving message   *)
(* or the operator (ThreadsGood), a waiter that settles has such an answer *)
(* (WaitersGood), and the hold a turn is about to spend or redeem is       *)
(* approved or spent already (PickedGood).  That the first answer stands   *)
(* rests on unclaimed threads having no answer.                            *)
(***************************************************************************)
EXTENDS Approvals, SequenceTheorems, WellFoundedInduction, TLAPS

Approved == {"approved", "spent"}
Approves(reason) == reason.meaning \in {"approve", "operator"}

HoldsGood(hs) ==
    \A h \in DOMAIN hs :
        /\ hs[h].redeemed <= 1
        /\ hs[h].redeemed = 1 => hs[h].state \in Approved
        /\ hs[h].state \in Approved => Approves(hs[h].reason)

ThreadsGood(ts) ==
    \A i \in DOMAIN ts :
        /\ ~ts[i].isClaimed => ts[i].answer = None
        /\ ts[i].answer # None /\ ts[i].answer.option = "approve"
              => Approves(ts[i].answer.reason)

WaitersGood(p, th, ts) ==
    \A w \in Waiters :
        /\ p[w] \in {"joined", "waiting", "answered", "advanced"} => th[w] \in DOMAIN ts
        /\ p[w] \in {"answered", "advanced"} => ts[th[w]].answer # None

RepliesGood(rs, ts) ==
    \A r \in Replies : IF rs[r].at = "read" THEN rs[r].thread \in DOMAIN ts
                                              ELSE rs[r].thread = 0

PickedGood(p, pk, hs) ==
    \A t \in Turns :
        p[t] \in {"marking", "invoking"} /\ pk[t] # 0 => hs[pk[t]].state \in Approved

IInv ==
    /\ TypeOK
    /\ HoldsGood(holds)
    /\ ThreadsGood(threads)
    /\ WaitersGood(pc, thread, threads)
    /\ RepliesGood(replies, threads)
    /\ PickedGood(pc, picked, holds)

(***************************************************************************)
(* What every step but a restart does to the holds and to the threads.     *)
(***************************************************************************)
HoldsStep ==
    /\ holds' \in Seq(Holds)
    /\ Len(holds) <= Len(holds') /\ Len(holds') <= MaxHolds
    /\ HoldsGood(holds')
    /\ \A h \in DOMAIN holds : holds[h].state \in Approved => holds'[h].state \in Approved

ThreadsStep ==
    /\ threads' \in Seq(Threads)
    /\ Len(threads) <= Len(threads')
    /\ ThreadsGood(threads')
    /\ \A i \in DOMAIN threads :
          threads[i].answer # None => threads'[i].answer = threads[i].answer

RestStep ==
    /\ status' \in Statuses
    /\ joined' \subseteq DOMAIN threads'
    /\ pc' \in [Waiters -> Steps]
    /\ thread' \in [Waiters -> 0 .. Len(threads')]
    /\ call' \in [Turns -> Calls]
    /\ picked' \in [Turns -> 0 .. Len(holds')]
    /\ found' \in [Wakers -> [hold : 0 .. Len(holds'), isPosted : BOOLEAN]]
    /\ carries' \in [Wakers -> Turns \cup {None}]
    /\ replies' \in [Replies -> [at : {"unwritten", "sent", "read", "done"},
                                 reason : Reasons, thread : 0 .. Len(threads')]]
    /\ operator' \in [at : {"idle", "resolved", "deciding", "launching"},
                      signal : {"approve", "reject"}]
    /\ ran' \in Seq(0 .. Len(holds'))
    /\ restarts' \in 0 .. MaxRestarts
    /\ WaitersGood(pc', thread', threads')
    /\ RepliesGood(replies', threads')
    /\ PickedGood(pc', picked', holds')
----------------------------------------------------------------------------
\* A nonempty set of naturals has a least element (FirstUnclaimed).
LEMMA LeastExists ==
    ASSUME NEW T \in SUBSET Nat, T # {}
    PROVE  \E x \in T : \A y \in T : x <= y
<1>1. PICK x \in T : \A y \in T : ~ (<<y, x>> \in OpToRel(<, Nat))
  BY NatLessThanWellFounded, WFMin
<1>2. \A y, z \in Nat : <<y, z>> \in OpToRel(<, Nat) <=> y < z
  BY DEF OpToRel
<1>3. \A y \in T : ~ (y < x)
  BY <1>1, <1>2
<1>4. x \in Nat /\ T \subseteq Nat
  BY Zenon
<1>5. \A y \in T : x <= y
  BY <1>3, <1>4
<1> QED
  BY <1>5

\* A nonempty set of positions has a greatest element (Latest).
LEMMA GreatestExists ==
    ASSUME NEW n \in Nat, NEW H \in SUBSET (1 .. n), H # {}
    PROVE  \E h \in H : \A g \in H : g <= h
<1> DEFINE T == {n - h : h \in H}
<1>1. \A h \in H : h \in Nat /\ n - h \in Nat
  OBVIOUS
<1>2. T \in SUBSET Nat
  BY <1>1
<1>3. T # {}
  OBVIOUS
<1> HIDE DEF T
<1>4. PICK x \in T : \A y \in T : x <= y
  BY <1>2, <1>3, LeastExists
<1>5. PICK h \in H : x = n - h
  BY <1>4 DEF T
<1>6. \A g \in H : n - g \in T
  BY DEF T
<1>7. \A g \in H : n - h <= n - g
  BY <1>4, <1>5, <1>6
<1> QED
  BY <1>1, <1>5, <1>7

\* Latest returns a member of the set, or 0 for none.
LEMMA LatestIsAMember ==
    ASSUME holds \in Seq(Holds), NEW H \in SUBSET DOMAIN holds
    PROVE  Latest(H) \in H \cup {0}
<1>1. H \in SUBSET (1 .. Len(holds)) /\ Len(holds) \in Nat
  BY LenProperties
<1>2. H # {} => \E h \in H : \A g \in H : g <= h
  BY <1>1, GreatestExists
<1> QED
  BY <1>2 DEF Latest
----------------------------------------------------------------------------
\* What a step leaves alone keeps its type when holds and threads only grow.
LEMMA Kept ==
    ASSUME IInv, HoldsStep, ThreadsStep
    PROVE  /\ joined \subseteq DOMAIN threads'
           /\ thread \in [Waiters -> 0 .. Len(threads')]
           /\ picked \in [Turns -> 0 .. Len(holds')]
           /\ found \in [Wakers -> [hold : 0 .. Len(holds'), isPosted : BOOLEAN]]
           /\ replies \in [Replies -> [at : {"unwritten", "sent", "read", "done"},
                                       reason : Reasons, thread : 0 .. Len(threads')]]
           /\ ran \in Seq(0 .. Len(holds'))
           /\ WaitersGood(pc, thread, threads')
           /\ RepliesGood(replies, threads')
           /\ PickedGood(pc, picked, holds')
           /\ DOMAIN threads \subseteq DOMAIN threads'
           /\ DOMAIN holds \subseteq DOMAIN holds'
<1>1. /\ Len(threads) \in Nat /\ Len(threads') \in Nat
      /\ DOMAIN threads = 1 .. Len(threads) /\ DOMAIN threads' = 1 .. Len(threads')
      /\ Len(threads) <= Len(threads')
  BY LenProperties DEF IInv, TypeOK, ThreadsStep
<1>2. /\ Len(holds) \in Nat /\ Len(holds') \in Nat
      /\ DOMAIN holds = 1 .. Len(holds) /\ DOMAIN holds' = 1 .. Len(holds')
      /\ Len(holds) <= Len(holds')
  BY LenProperties DEF IInv, TypeOK, HoldsStep
<1>3. DOMAIN threads \subseteq DOMAIN threads' /\ 0 .. Len(threads) \subseteq 0 .. Len(threads')
  BY <1>1
<1>4. DOMAIN holds \subseteq DOMAIN holds' /\ 0 .. Len(holds) \subseteq 0 .. Len(holds')
  BY <1>2
<1>5. joined \subseteq DOMAIN threads' /\ thread \in [Waiters -> 0 .. Len(threads')]
  BY <1>3 DEF IInv, TypeOK
<1>6. picked \in [Turns -> 0 .. Len(holds')]
  BY <1>4 DEF IInv, TypeOK
<1>7. found \in [Wakers -> [hold : 0 .. Len(holds'), isPosted : BOOLEAN]]
  BY <1>4 DEF IInv, TypeOK
<1>8. replies \in [Replies -> [at : {"unwritten", "sent", "read", "done"},
                              reason : Reasons, thread : 0 .. Len(threads')]]
  BY <1>3 DEF IInv, TypeOK
<1>9. ran \in Seq(0 .. Len(holds'))
  <2>1. ran \in Seq(0 .. Len(holds))
    BY DEF IInv, TypeOK
  <2> QED
    BY <1>4, <2>1, SeqMonotonic
<1>10. WaitersGood(pc, thread, threads')
  BY <1>3 DEF IInv, WaitersGood, ThreadsStep
<1>11. RepliesGood(replies, threads')
  BY <1>3 DEF IInv, RepliesGood
<1>12. PickedGood(pc, picked, holds')
  BY <1>2 DEF IInv, TypeOK, PickedGood, HoldsStep
<1> QED
  BY <1>3, <1>4, <1>5, <1>6, <1>7, <1>8, <1>9, <1>10, <1>11, <1>12

\* Holds, threads and the rest: the invariant.
LEMMA Together ==
    ASSUME HoldsStep, ThreadsStep, RestStep
    PROVE  IInv'
BY DEF HoldsStep, ThreadsStep, RestStep, IInv, TypeOK
----------------------------------------------------------------------------
(***************************************************************************)
(* The operations on holds.                                                *)
(***************************************************************************)
\* A step that leaves the hold record alone.
LEMMA HoldsUnchanged ==
    ASSUME IInv, UNCHANGED holds
    PROVE  HoldsStep
BY LenProperties DEF IInv, TypeOK, HoldsStep

\* A step that leaves the asking threads alone.
LEMMA ThreadsUnchanged ==
    ASSUME IInv, UNCHANGED threads
    PROVE  ThreadsStep
BY LenProperties DEF IInv, TypeOK, ThreadsStep

\* Replacing one hold by another good one (Post, Spend, redemption, decisions).
LEMMA HoldReplaced ==
    ASSUME IInv, NEW h \in DOMAIN holds, NEW r \in Holds,
           holds' = [holds EXCEPT ![h] = r],
           r.redeemed <= 1,
           r.redeemed = 1 => r.state \in Approved,
           r.state \in Approved => Approves(r.reason),
           holds[h].state \in Approved => r.state \in Approved
    PROVE  HoldsStep
<1>1. holds \in Seq(Holds) /\ Len(holds) <= MaxHolds /\ HoldsGood(holds)
  BY DEF IInv, TypeOK
<1>2. holds' \in Seq(Holds) /\ Len(holds') = Len(holds) /\ DOMAIN holds' = DOMAIN holds
  BY <1>1, ExceptSeq, LenProperties
<1>3. \A g \in DOMAIN holds : holds'[g] = IF g = h THEN r ELSE holds[g]
  BY <1>1
<1>4. HoldsGood(holds')
  BY <1>1, <1>2, <1>3 DEF HoldsGood
<1>5. Len(holds) \in Nat
  BY <1>1, LenProperties
<1> QED
  BY <1>1, <1>2, <1>3, <1>4, <1>5 DEF HoldsStep

\* The same for the threads; one that has an answer keeps it (claim).
LEMMA ThreadReplaced ==
    ASSUME IInv, NEW i \in DOMAIN threads, NEW r \in Threads,
           threads' = [threads EXCEPT ![i] = r],
           threads[i].answer = None,
           ~r.isClaimed => r.answer = None,
           r.answer # None /\ r.answer.option = "approve" => Approves(r.answer.reason)
    PROVE  ThreadsStep
<1>1. threads \in Seq(Threads) /\ ThreadsGood(threads)
  BY DEF IInv, TypeOK
<1>2. threads' \in Seq(Threads) /\ Len(threads') = Len(threads) /\ DOMAIN threads' = DOMAIN threads
  BY <1>1, ExceptSeq, LenProperties
<1>3. \A j \in DOMAIN threads : threads'[j] = IF j = i THEN r ELSE threads[j]
  BY <1>1
<1>4. ThreadsGood(threads')
  BY <1>1, <1>2, <1>3 DEF ThreadsGood
<1>5. Len(threads) \in Nat
  BY <1>1, LenProperties
<1> QED
  BY <1>1, <1>2, <1>3, <1>4, <1>5 DEF ThreadsStep

\* A decision of the latest pending hold.
LEMMA SettleKeeps ==
    ASSUME IInv, NEW decision \in {"approved", "rejected", "deferred"},
           NEW reason \in Reasons,
           decision = "approved" => Approves(reason),
           SettleLatest(decision, reason)
    PROVE  HoldsStep
<1>1. CASE PendingHold = 0
  BY <1>1, HoldsUnchanged DEF SettleLatest
<1>2. CASE PendingHold # 0
  <2> DEFINE h == PendingHold
             r == [holds[h] EXCEPT !.state = decision, !.reason = reason]
  <2>1. holds \in Seq(Holds) /\ HoldsGood(holds)
    BY DEF IInv, TypeOK
  <2>2. h \in DOMAIN holds /\ holds[h].state = "pending"
    <3>1. InState("pending") \in SUBSET DOMAIN holds
      BY DEF InState
    <3>2. h \in InState("pending") \cup {0}
      BY <2>1, <3>1, LatestIsAMember DEF PendingHold
    <3> QED
      BY <1>2, <3>2 DEF InState
  <2> HIDE DEF h
  <2>3. holds[h] \in Holds
    BY <2>1, <2>2, ElementOfSeq, LenProperties
  <2>4. /\ r \in Holds /\ r.state = decision /\ r.reason = reason
        /\ r.redeemed = holds[h].redeemed
    BY <2>3 DEF Holds
  <2>5. holds' = [holds EXCEPT ![h] = r]
    BY <1>2 DEF SettleLatest, h
  <2>6. r.redeemed <= 1 /\ r.redeemed # 1
    <3>1. holds[h].redeemed <= 1 /\ holds[h].redeemed # 1
      BY <2>1, <2>2 DEF HoldsGood, Approved
    <3> QED
      BY <3>1, <2>4
  <2> HIDE DEF r
  <2> QED
    BY <2>2, <2>4, <2>5, <2>6, HoldReplaced DEF Approved
<1> QED
  BY <1>1, <1>2

\* The question is posted.
LEMMA PostKeeps ==
    ASSUME IInv, Post
    PROVE  HoldsStep
<1> DEFINE h == Len(holds)
           r == [holds[h] EXCEPT !.posts = @ + 1]
<1>1. holds \in Seq(Holds) /\ HoldsGood(holds)
  BY DEF IInv, TypeOK
<1>2. h \in Nat /\ DOMAIN holds = 1 .. h
  BY <1>1, LenProperties
<1>3. CASE h = 0
  <2>1. holds' = holds
    <3>1. h \notin DOMAIN holds
      BY <1>2, <1>3
    <3>2. holds = [x \in DOMAIN holds |-> holds[x]]
      BY <1>1
    <3> QED
      BY <3>1, <3>2 DEF Post
  <2> QED
    BY <2>1, HoldsUnchanged
<1>4. CASE h # 0
  <2>1. h \in DOMAIN holds
    BY <1>2, <1>4
  <2>2. holds[h] \in Holds
    BY <1>1, <1>2, <2>1, ElementOfSeq
  <2>3. holds' = [holds EXCEPT ![h] = r]
    BY DEF Post
  <2>4. /\ r \in Holds /\ r.state = holds[h].state /\ r.reason = holds[h].reason
        /\ r.redeemed = holds[h].redeemed
    BY <2>2 DEF Holds
  <2>5. /\ holds[h].redeemed <= 1
        /\ holds[h].redeemed = 1 => holds[h].state \in Approved
        /\ holds[h].state \in Approved => Approves(holds[h].reason)
    BY <1>1, <2>1 DEF HoldsGood
  <2> HIDE DEF r, h
  <2> QED
    BY <2>1, <2>3, <2>4, <2>5, HoldReplaced
<1> QED
  BY <1>3, <1>4

\* A call is held.
LEMMA HoldAppended ==
    ASSUME IInv, NEW c \in Calls, Len(holds) < MaxHolds,
           holds' = Append(holds, Hold(c))
    PROVE  HoldsStep
<1>1. holds \in Seq(Holds) /\ Len(holds) <= MaxHolds /\ HoldsGood(holds)
  BY DEF IInv, TypeOK
<1>2. MaxHolds \in Nat
  BY ConstantsAssumption
<1>3. Nobody \in Reasons
  BY <1>2 DEF Nobody, Reasons
<1>4. Hold(c) \in Holds /\ Hold(c).redeemed = 0 /\ Hold(c).state = "pending"
  BY <1>3 DEF Hold, Holds
<1>5. /\ holds' \in Seq(Holds) /\ Len(holds') = Len(holds) + 1
      /\ \A g \in 1 .. Len(holds) : holds'[g] = holds[g]
      /\ holds'[Len(holds) + 1] = Hold(c)
  BY <1>1, <1>4, AppendProperties
<1>6. /\ Len(holds) \in Nat /\ DOMAIN holds = 1 .. Len(holds)
      /\ DOMAIN holds' = 1 .. Len(holds) + 1
  BY <1>1, <1>5, LenProperties
<1>7. HoldsGood(holds')
  <2> SUFFICES ASSUME NEW g \in DOMAIN holds'
               PROVE  /\ holds'[g].redeemed <= 1
                      /\ holds'[g].redeemed = 1 => holds'[g].state \in Approved
                      /\ holds'[g].state \in Approved => Approves(holds'[g].reason)
    BY DEF HoldsGood
  <2>1. CASE g \in DOMAIN holds
    BY <1>1, <1>5, <1>6, <2>1 DEF HoldsGood
  <2>2. CASE g = Len(holds) + 1
    BY <1>4, <1>5, <2>2 DEF Approved
  <2> QED
    BY <1>6, <2>1, <2>2
<1> QED
  BY <1>1, <1>2, <1>5, <1>6, <1>7 DEF HoldsStep

(***************************************************************************)
(* The operations on threads.                                              *)
(***************************************************************************)
\* A new thread joins, unclaimed and without an answer.
LEMMA JoinKeeps ==
    ASSUME IInv, NEW w \in Waiters, NEW c, join(w, c)
    PROVE  /\ ThreadsStep
           /\ joined' \subseteq DOMAIN threads'
           /\ thread' \in [Waiters -> 0 .. Len(threads')]
           /\ thread' = [thread EXCEPT ![w] = Len(threads) + 1]
           /\ thread'[w] \in DOMAIN threads'
<1> DEFINE r == [offers |-> c \in ChoiceCalls, isClaimed |-> FALSE, answer |-> None]
<1>1. threads \in Seq(Threads) /\ ThreadsGood(threads) /\ joined \subseteq DOMAIN threads
      /\ thread \in [Waiters -> 0 .. Len(threads)]
  BY DEF IInv, TypeOK
<1>2. r \in Threads /\ r.answer = None
  BY DEF Threads
<1>3. threads' = Append(threads, r)
  BY DEF join
<1> HIDE DEF r
<1>4. /\ threads' \in Seq(Threads) /\ Len(threads') = Len(threads) + 1
      /\ \A i \in 1 .. Len(threads) : threads'[i] = threads[i]
      /\ threads'[Len(threads) + 1] = r
  BY <1>1, <1>2, <1>3, AppendProperties
<1>5. /\ Len(threads) \in Nat /\ DOMAIN threads = 1 .. Len(threads)
      /\ DOMAIN threads' = 1 .. Len(threads) + 1
  BY <1>1, <1>4, LenProperties
<1>6. ThreadsGood(threads')
  <2> SUFFICES ASSUME NEW i \in DOMAIN threads'
               PROVE  /\ ~threads'[i].isClaimed => threads'[i].answer = None
                      /\ threads'[i].answer # None /\ threads'[i].answer.option = "approve"
                            => Approves(threads'[i].answer.reason)
    BY DEF ThreadsGood
  <2>1. CASE i \in DOMAIN threads
    BY <1>1, <1>4, <1>5, <2>1 DEF ThreadsGood
  <2>2. CASE i = Len(threads) + 1
    BY <1>2, <1>4, <2>2
  <2> QED
    BY <1>5, <2>1, <2>2
<1>7. ThreadsStep
  BY <1>1, <1>4, <1>5, <1>6 DEF ThreadsStep
<1>8. joined' \subseteq DOMAIN threads'
  BY <1>1, <1>5 DEF join
<1>9. thread' = [thread EXCEPT ![w] = Len(threads) + 1]
  BY DEF join
<1>10. /\ thread' \in [Waiters -> 0 .. Len(threads')]
       /\ thread'[w] \in DOMAIN threads'
  BY <1>1, <1>4, <1>5, <1>9
<1> QED
  BY <1>7, <1>8, <1>9, <1>10

\* An unclaimed thread takes an answer.
LEMMA ClaimKeeps ==
    ASSUME IInv, NEW i \in DOMAIN threads, ~threads[i].isClaimed,
           NEW a \in Answers, a.option = "approve" => Approves(a.reason),
           claim(i, a)
    PROVE  ThreadsStep
<1> DEFINE r == [threads[i] EXCEPT !.isClaimed = TRUE, !.answer = a]
<1>1. threads \in Seq(Threads) /\ ThreadsGood(threads)
  BY DEF IInv, TypeOK
<1>2. threads[i] \in Threads /\ threads[i].answer = None
  BY <1>1, ElementOfSeq, LenProperties DEF ThreadsGood
<1>3. r \in Threads /\ r.isClaimed = TRUE /\ r.answer = a
  BY <1>2 DEF Threads
<1>4. threads' = [threads EXCEPT ![i] = r]
  BY DEF claim
<1> HIDE DEF r
<1> QED
  BY <1>2, <1>3, <1>4, ThreadReplaced

\* awaiting and awaitingRun return an unclaimed thread, or none.
LEMMA FirstUnclaimedIsUnclaimed ==
    ASSUME IInv
    PROVE  FirstUnclaimed \in Unclaimed \cup {0}
<1>1. Unclaimed \in SUBSET Nat
  BY LenProperties DEF IInv, TypeOK, Unclaimed
<1>2. Unclaimed # {} => \E i \in Unclaimed : \A j \in Unclaimed : i <= j
  BY <1>1, LeastExists
<1> QED
  BY <1>2 DEF FirstUnclaimed
----------------------------------------------------------------------------
(***************************************************************************)
(* The steps.                                                              *)
(***************************************************************************)
\* One waiter moves.
LEMMA Moved ==
    ASSUME IInv, HoldsStep, ThreadsStep,
           NEW w \in Waiters, NEW to \in Steps,
           pc' = [pc EXCEPT ![w] = to],
           \A u \in Waiters \ {w} : thread'[u] = thread[u],
           \A u \in Turns \ {w} : picked'[u] = picked[u],
           to \in {"joined", "waiting", "answered", "advanced"}
              => thread'[w] \in DOMAIN threads',
           to \in {"answered", "advanced"} => threads'[thread'[w]].answer # None,
           w \in Turns /\ to \in {"marking", "invoking"} /\ picked'[w] # 0
              => holds'[picked'[w]].state \in Approved
    PROVE  /\ pc' \in [Waiters -> Steps]
           /\ WaitersGood(pc', thread', threads')
           /\ PickedGood(pc', picked', holds')
<1>1. pc \in [Waiters -> Steps]
  BY DEF IInv, TypeOK
<1>2. WaitersGood(pc, thread, threads') /\ PickedGood(pc, picked, holds')
  BY Kept
<1>3. \A u \in Waiters : pc'[u] = IF u = w THEN to ELSE pc[u]
  BY <1>1
<1>4. pc' \in [Waiters -> Steps]
  BY <1>1
<1>5. WaitersGood(pc', thread', threads')
  BY <1>2, <1>3 DEF WaitersGood
<1>6. Turns \subseteq Waiters
  BY DEF Waiters
<1>7. PickedGood(pc', picked', holds')
  BY <1>2, <1>3, <1>6 DEF PickedGood
<1> QED
  BY <1>4, <1>5, <1>7

\* A step that touches neither holds nor threads.
LEMMA Idle ==
    ASSUME IInv, UNCHANGED <<holds, threads>>
    PROVE  HoldsStep /\ ThreadsStep
BY HoldsUnchanged, ThreadsUnchanged

\* ReviewToolCall of a call with an approved hold.
LEMMA ReviewStep ==
    ASSUME IInv, NEW t \in Turns, NEW c \in Calls, ReviewApprovedCall(t, c)
    PROVE  HoldsStep /\ ThreadsStep /\ RestStep
<1>1. HoldsStep /\ ThreadsStep
  BY Idle DEF ReviewApprovedCall, At, wakerVars
<1>2. /\ pc' \in [Waiters -> Steps]
      /\ WaitersGood(pc', thread', threads')
      /\ PickedGood(pc', picked', holds')
  BY <1>1, Moved DEF ReviewApprovedCall, At, wakerVars, Waiters, Steps, IInv, TypeOK, WaitersGood
<1>3. RestStep
  BY <1>1, <1>2, Kept DEF RestStep, IInv, TypeOK, ReviewApprovedCall, At, wakerVars
<1> QED
  BY <1>1, <1>3

\* The end of a turn.
LEMMA EndTurnStep ==
    ASSUME IInv, NEW t \in Turns, EndTurn(t)
    PROVE  HoldsStep /\ ThreadsStep /\ RestStep
<1>1. HoldsStep /\ ThreadsStep
  BY Idle DEF EndTurn, At, turnVars, wakerVars, Statuses
<1>2. /\ pc' \in [Waiters -> Steps]
      /\ WaitersGood(pc', thread', threads')
      /\ PickedGood(pc', picked', holds')
  BY <1>1, Moved DEF EndTurn, At, turnVars, wakerVars, Statuses, Waiters, Steps, IInv, TypeOK, WaitersGood
<1>3. RestStep
  BY <1>1, <1>2, Kept DEF RestStep, IInv, TypeOK, EndTurn, At, turnVars, wakerVars, Statuses
<1> QED
  BY <1>1, <1>3

\* The end of the run a waker launched: its thread leaves.
LEMMA EndCarryingStep ==
    ASSUME IInv, NEW w \in Wakers, endCarrying(w)
    PROVE  HoldsStep /\ ThreadsStep /\ RestStep
<1>1. HoldsStep /\ ThreadsStep
  BY Idle DEF endCarrying, At, leave, turnVars, wakerVars
<1>2. /\ pc' \in [Waiters -> Steps]
      /\ WaitersGood(pc', thread', threads')
      /\ PickedGood(pc', picked', holds')
  BY <1>1, Moved DEF endCarrying, At, leave, turnVars, wakerVars, Waiters, Steps, IInv, TypeOK, WaitersGood
<1>3. RestStep
  BY <1>1, <1>2, Kept DEF RestStep, IInv, TypeOK, endCarrying, At, leave, turnVars, wakerVars
<1> QED
  BY <1>1, <1>3

\* AdvanceTaskRun once an answer was taken.
LEMMA AdvanceStep ==
    ASSUME IInv, NEW w \in Waiters, AdvanceTaskRun(w)
    PROVE  HoldsStep /\ ThreadsStep /\ RestStep
<1>1. HoldsStep /\ ThreadsStep
  BY Idle DEF AdvanceTaskRun, At, leave, turnVars, wakerVars, Statuses
<1>2. /\ pc' \in [Waiters -> Steps]
      /\ WaitersGood(pc', thread', threads')
      /\ PickedGood(pc', picked', holds')
  BY <1>1, Moved DEF AdvanceTaskRun, At, leave, turnVars, wakerVars, Statuses, Waiters, Steps, IInv, TypeOK, WaitersGood
<1>3. RestStep
  BY <1>1, <1>2, Kept DEF RestStep, IInv, TypeOK, AdvanceTaskRun, At, leave, turnVars, wakerVars, Statuses
<1> QED
  BY <1>1, <1>3

\* awaitAnswer: who leaves with an answer has one.
LEMMA AwaitStep ==
    ASSUME IInv, NEW w \in Waiters, awaitAnswer(w)
    PROVE  HoldsStep /\ ThreadsStep /\ RestStep
<1>1. HoldsStep /\ ThreadsStep
  BY Idle DEF awaitAnswer, At, leave, HasAnswer, turnVars, wakerVars
<1>2. /\ pc' \in [Waiters -> Steps]
      /\ WaitersGood(pc', thread', threads')
      /\ PickedGood(pc', picked', holds')
  BY <1>1, Moved DEF awaitAnswer, At, leave, HasAnswer, turnVars, wakerVars, Waiters, Steps, IInv, TypeOK, WaitersGood
<1>3. RestStep
  BY <1>1, <1>2, Kept DEF RestStep, IInv, TypeOK, awaitAnswer, At, leave, HasAnswer, turnVars, wakerVars
<1> QED
  BY <1>1, <1>3

\* A boot with nothing to wait for.
LEMMA NothingHeldStep ==
    ASSUME IInv, NEW w \in Wakers, nothingHeld(w)
    PROVE  HoldsStep /\ ThreadsStep /\ RestStep
<1>1. HoldsStep /\ ThreadsStep
  BY Idle DEF nothingHeld, turnVars, wakerVars
<1>2. /\ pc' \in [Waiters -> Steps]
      /\ WaitersGood(pc', thread', threads')
      /\ PickedGood(pc', picked', holds')
  BY <1>1, Moved DEF nothingHeld, turnVars, wakerVars, Waiters, Steps, IInv, TypeOK, WaitersGood
<1>3. RestStep
  BY <1>1, <1>2, Kept DEF RestStep, IInv, TypeOK, nothingHeld, turnVars, wakerVars
<1> QED
  BY <1>1, <1>3

\* A call is held.
LEMMA HoldCallStep ==
    ASSUME IInv, NEW t \in Turns, NEW c \in Calls, holdCall(t, c)
    PROVE  HoldsStep /\ ThreadsStep /\ RestStep
<1>1. HoldsStep /\ ThreadsStep
  BY HoldAppended, ThreadsUnchanged DEF holdCall
<1>2. /\ pc' \in [Waiters -> Steps]
      /\ WaitersGood(pc', thread', threads')
      /\ PickedGood(pc', picked', holds')
  BY <1>1, Moved DEF holdCall, At, wakerVars, Waiters, Steps
<1>3. RestStep
  BY <1>1, <1>2, Kept DEF RestStep, IInv, TypeOK, holdCall, At, wakerVars, Statuses
<1> QED
  BY <1>1, <1>3

\* askWhereTheyAre: the thread joins, or there is nobody to ask.
LEMMA AskStep ==
    ASSUME IInv, NEW t \in Turns, askWhereTheyAre(t)
    PROVE  HoldsStep /\ ThreadsStep /\ RestStep
<1>1. CASE At(t, "held", "joined") /\ join(t, call[t])
           /\ UNCHANGED <<status, holds, turnVars, wakerVars, replies, operator, ran, restarts>>
  <2>1. t \in Waiters /\ "joined" \in Steps
    BY DEF Waiters, Steps
  <2>2. HoldsStep /\ ThreadsStep
    BY <1>1, <2>1, JoinKeeps, HoldsUnchanged
  <2>3. /\ joined' \subseteq DOMAIN threads'
        /\ thread' \in [Waiters -> 0 .. Len(threads')]
        /\ thread' = [thread EXCEPT ![t] = Len(threads) + 1]
        /\ thread'[t] \in DOMAIN threads'
    BY <1>1, <2>1, JoinKeeps
  <2>4. \A u \in Waiters \ {t} : thread'[u] = thread[u]
    BY <2>3 DEF IInv, TypeOK
  <2>5. /\ pc' \in [Waiters -> Steps]
        /\ WaitersGood(pc', thread', threads')
        /\ PickedGood(pc', picked', holds')
    BY <1>1, <2>1, <2>2, <2>3, <2>4, Moved DEF At, turnVars
  <2>6. RestStep
    BY <1>1, <2>2, <2>3, <2>5, Kept DEF RestStep, IInv, TypeOK, turnVars, wakerVars
  <2> QED
    BY <2>2, <2>6
<1>2. CASE At(t, "held", "unanswered")
           /\ UNCHANGED <<status, holds, threads, joined, thread, turnVars, wakerVars,
                          replies, operator, ran, restarts>>
  <2>1. HoldsStep /\ ThreadsStep
    BY <1>2, Idle
  <2>2. /\ pc' \in [Waiters -> Steps]
        /\ WaitersGood(pc', thread', threads')
        /\ PickedGood(pc', picked', holds')
    BY <1>2, <2>1, Moved DEF At, turnVars, Waiters, Steps
  <2>3. RestStep
    BY <1>2, <2>1, <2>2, Kept DEF RestStep, IInv, TypeOK, turnVars, wakerVars
  <2> QED
    BY <2>1, <2>3
<1> QED
  BY <1>1, <1>2 DEF askWhereTheyAre

\* beginReawaiting joins, or ends the hold.
LEMMA JoinAgainStep ==
    ASSUME IInv, NEW w \in Wakers, joinAgain(w)
    PROVE  HoldsStep /\ ThreadsStep /\ RestStep
<1>1. CASE At(w, "checked", "joined") /\ join(w, holds[found[w].hold].call)
           /\ UNCHANGED <<status, holds, turnVars, wakerVars, replies, operator, ran, restarts>>
  <2>1. w \in Waiters /\ "joined" \in Steps
    BY DEF Waiters, Steps
  <2>2. HoldsStep /\ ThreadsStep
    BY <1>1, <2>1, JoinKeeps, HoldsUnchanged
  <2>3. /\ joined' \subseteq DOMAIN threads'
        /\ thread' \in [Waiters -> 0 .. Len(threads')]
        /\ thread' = [thread EXCEPT ![w] = Len(threads) + 1]
        /\ thread'[w] \in DOMAIN threads'
    BY <1>1, <2>1, JoinKeeps
  <2>4. \A u \in Waiters \ {w} : thread'[u] = thread[u]
    BY <2>3 DEF IInv, TypeOK
  <2>5. /\ pc' \in [Waiters -> Steps]
        /\ WaitersGood(pc', thread', threads')
        /\ PickedGood(pc', picked', holds')
    BY <1>1, <2>1, <2>2, <2>3, <2>4, Moved DEF At, turnVars
  <2>6. RestStep
    BY <1>1, <2>2, <2>3, <2>5, Kept DEF RestStep, IInv, TypeOK, turnVars, wakerVars
  <2> QED
    BY <2>2, <2>6
<1>2. CASE At(w, "checked", "unanswered")
           /\ UNCHANGED <<status, holds, threads, joined, thread, turnVars, wakerVars,
                          replies, operator, ran, restarts>>
  <2>1. HoldsStep /\ ThreadsStep
    BY <1>2, Idle
  <2>2. /\ pc' \in [Waiters -> Steps]
        /\ WaitersGood(pc', thread', threads')
        /\ PickedGood(pc', picked', holds')
    BY <1>2, <2>1, Moved DEF At, turnVars, Waiters, Steps
  <2>3. RestStep
    BY <1>2, <2>1, <2>2, Kept DEF RestStep, IInv, TypeOK, turnVars, wakerVars
  <2> QED
    BY <2>1, <2>3
<1> QED
  BY <1>1, <1>2 DEF joinAgain

\* The question of a turn is delivered or not.
LEMMA DeliverStep ==
    ASSUME IInv, NEW t \in Turns, deliverApprovalQuestion(t)
    PROVE  HoldsStep /\ ThreadsStep /\ RestStep
<1>1. HoldsStep /\ ThreadsStep
  BY PostKeeps, HoldsUnchanged, ThreadsUnchanged DEF deliverApprovalQuestion
<1>2. /\ pc' \in [Waiters -> Steps]
      /\ WaitersGood(pc', thread', threads')
      /\ PickedGood(pc', picked', holds')
  <2>1. thread[t] \in DOMAIN threads' /\ t \in Waiters
    BY <1>1, Kept DEF deliverApprovalQuestion, IInv, WaitersGood, Waiters
  <2> QED
    BY <1>1, <2>1, Moved DEF deliverApprovalQuestion, At, turnVars, Steps
<1>3. RestStep
  BY <1>1, <1>2, Kept DEF RestStep, IInv, TypeOK, deliverApprovalQuestion, leave, turnVars, wakerVars
<1> QED
  BY <1>1, <1>3

\* The question of a restarted run is delivered unless it was.
LEMMA AwaitReawakenedStep ==
    ASSUME IInv, NEW w \in Wakers, awaitReawakenedThread(w)
    PROVE  HoldsStep /\ ThreadsStep /\ RestStep
<1>1. HoldsStep /\ ThreadsStep
  BY PostKeeps, HoldsUnchanged, ThreadsUnchanged DEF awaitReawakenedThread
<1>2. /\ pc' \in [Waiters -> Steps]
      /\ WaitersGood(pc', thread', threads')
      /\ PickedGood(pc', picked', holds')
  <2>1. thread[w] \in DOMAIN threads' /\ w \in Waiters
    BY <1>1, Kept DEF awaitReawakenedThread, At, IInv, WaitersGood, Waiters
  <2> QED
    BY <1>1, <2>1, Moved DEF awaitReawakenedThread, At, turnVars, Steps
<1>3. RestStep
  BY <1>1, <1>2, Kept DEF RestStep, IInv, TypeOK, awaitReawakenedThread, turnVars, wakerVars
<1> QED
  BY <1>1, <1>3

\* The gate rejects an unanswered hold.
LEMMA EndUnansweredStep ==
    ASSUME IInv, NEW t \in Turns, endUnansweredHold(t)
    PROVE  HoldsStep /\ ThreadsStep /\ RestStep
<1>0. Nobody \in Reasons
  BY ConstantsAssumption DEF Nobody, Reasons
<1>1. HoldsStep /\ ThreadsStep
  BY <1>0, SettleKeeps, ThreadsUnchanged DEF endUnansweredHold
<1>2. /\ pc' \in [Waiters -> Steps]
      /\ WaitersGood(pc', thread', threads')
      /\ PickedGood(pc', picked', holds')
  BY <1>1, Moved DEF endUnansweredHold, At, turnVars, Waiters, Steps
<1>3. RestStep
  BY <1>1, <1>2, Kept DEF RestStep, IInv, TypeOK, endUnansweredHold, turnVars, wakerVars, Statuses
<1> QED
  BY <1>1, <1>3

\* The connectors reject an unanswered hold and fail its run.
LEMMA FailUnansweredStep ==
    ASSUME IInv, NEW w \in Wakers, failUnansweredRun(w)
    PROVE  HoldsStep /\ ThreadsStep /\ RestStep
<1>0. Nobody \in Reasons
  BY ConstantsAssumption DEF Nobody, Reasons
<1>1. HoldsStep /\ ThreadsStep
  BY <1>0, SettleKeeps, ThreadsUnchanged DEF failUnansweredRun
<1>2. /\ pc' \in [Waiters -> Steps]
      /\ WaitersGood(pc', thread', threads')
      /\ PickedGood(pc', picked', holds')
  BY <1>1, Moved DEF failUnansweredRun, At, turnVars, Waiters, Steps
<1>3. RestStep
  BY <1>1, <1>2, Kept DEF RestStep, IInv, TypeOK, failUnansweredRun, leave, turnVars, wakerVars, Statuses
<1> QED
  BY <1>1, <1>3

\* SettleAnswer: what is approved was answered with an approval.
LEMMA SettleStep ==
    ASSUME IInv, NEW w \in Waiters, SettleAnswer(w)
    PROVE  HoldsStep /\ ThreadsStep /\ RestStep
<1>0. /\ AnswerOf(w) \in Answers
      /\ AnswerOf(w).option = "approve" => Approves(AnswerOf(w).reason)
  <2>1. thread[w] \in DOMAIN threads /\ threads[thread[w]].answer # None
    BY DEF SettleAnswer, IInv, WaitersGood
  <2>2. threads \in Seq(Threads)
    BY DEF IInv, TypeOK
  <2>3. thread[w] \in 1 .. Len(threads)
    BY <2>1, <2>2, LenProperties
  <2>4. threads[thread[w]] \in Threads
    BY <2>2, <2>3, ElementOfSeq
  <2> QED
    BY <2>1, <2>4 DEF AnswerOf, Threads, IInv, ThreadsGood
<1>1. HoldsStep /\ ThreadsStep
  <2>1. AnswerOf(w).reason \in Reasons
    BY <1>0 DEF Answers
  <2>2. HoldsStep
    BY <1>0, <2>1, SettleKeeps, HoldsUnchanged DEF SettleAnswer
  <2> QED
    BY <2>2, ThreadsUnchanged DEF SettleAnswer
<1>2. /\ pc' \in [Waiters -> Steps]
      /\ WaitersGood(pc', thread', threads')
      /\ PickedGood(pc', picked', holds')
  <2>1. PICK to \in {"spending", "working", "resuming"} : pc' = [pc EXCEPT ![w] = to]
    BY DEF SettleAnswer, At
  <2>2. to \in Steps
    BY DEF Steps
  <2> QED
    BY <1>1, <2>1, <2>2, Moved DEF SettleAnswer, turnVars
<1>3. RestStep
  BY <1>1, <1>2, Kept DEF RestStep, IInv, TypeOK, SettleAnswer, turnVars, wakerVars
<1> QED
  BY <1>1, <1>3

\* RecordApprovalSpent: only an approved hold is picked, and stays approved or spent.
LEMMA SpendStep ==
    ASSUME IInv, NEW t \in Turns, RecordApprovalSpent(t)
    PROVE  HoldsStep /\ ThreadsStep /\ RestStep
<1> t \in Waiters
  BY DEF Waiters
<1>1. CASE /\ At(t, "spending", "marking")
           /\ picked' = [picked EXCEPT ![t] = approvedHold(call[t])]
           /\ UNCHANGED <<status, holds, threads, joined, thread, call, wakerVars,
                          replies, operator, ran, restarts>>
  <2>1. HoldsStep /\ ThreadsStep
    BY <1>1, Idle
  <2> DEFINE H == {h \in InState("approved") : holds[h].call = call[t]}
  <2>2. holds \in Seq(Holds) /\ H \in SUBSET DOMAIN holds
    BY DEF IInv, TypeOK, InState
  <2>3. approvedHold(call[t]) \in H \cup {0}
    BY <2>2, LatestIsAMember DEF approvedHold
  <2>4. picked \in [Turns -> 0 .. Len(holds)]
    BY DEF IInv, TypeOK
  <2>5. /\ picked' \in [Turns -> 0 .. Len(holds')]
        /\ picked'[t] # 0 => holds'[picked'[t]].state = "approved"
        /\ \A u \in Turns \ {t} : picked'[u] = picked[u]
    BY <1>1, <2>2, <2>3, <2>4, LenProperties DEF InState
  <2>6. /\ pc' \in [Waiters -> Steps]
        /\ WaitersGood(pc', thread', threads')
        /\ PickedGood(pc', picked', holds')
    BY <1>1, <2>1, <2>5, Moved DEF At, Steps, Approved
  <2>7. RestStep
    BY <1>1, <2>1, <2>5, <2>6, Kept DEF RestStep, IInv, TypeOK, wakerVars
  <2> QED
    BY <2>1, <2>7
<1>2. CASE /\ At(t, "marking", "invoking")
           /\ holds' = IF picked[t] = 0 THEN holds
                       ELSE [holds EXCEPT ![picked[t]].state = "spent"]
           /\ UNCHANGED <<status, threads, joined, thread, turnVars, wakerVars, replies,
                          operator, ran, restarts>>
  <2> DEFINE h == picked[t]
             r == [holds[h] EXCEPT !.state = "spent"]
  <2>1. h \in 0 .. Len(holds) /\ holds \in Seq(Holds) /\ HoldsGood(holds)
    BY DEF IInv, TypeOK
  <2>2. h # 0 => h \in DOMAIN holds /\ holds[h].state \in Approved
    BY <1>2, <2>1, LenProperties DEF IInv, PickedGood, At
  <2>3. h = 0 => HoldsStep
    BY <1>2, HoldsUnchanged
  <2>4. h # 0 => HoldsStep
    <3> SUFFICES ASSUME h # 0 PROVE HoldsStep
      OBVIOUS
    <3>1. holds[h] \in Holds
      BY <2>1, <2>2, ElementOfSeq, LenProperties
    <3>2. /\ r \in Holds /\ r.state = "spent" /\ r.reason = holds[h].reason
          /\ r.redeemed = holds[h].redeemed
      BY <3>1 DEF Holds
    <3>3. holds' = [holds EXCEPT ![h] = r]
      BY <1>2
    <3>4. holds[h].redeemed <= 1 /\ Approves(holds[h].reason)
      BY <2>1, <2>2 DEF HoldsGood
    <3> HIDE DEF r, h
    <3>5. HoldsStep
      BY <2>2, <3>2, <3>3, <3>4, HoldReplaced DEF Approved
    <3> QED
      BY <3>5
  <2>5. HoldsStep /\ ThreadsStep
    BY <1>2, <2>3, <2>4, ThreadsUnchanged
  <2>6. picked[t] # 0 => holds'[picked[t]].state \in Approved
    BY <2>2, <2>5 DEF HoldsStep
  <2>7. /\ pc' \in [Waiters -> Steps]
        /\ WaitersGood(pc', thread', threads')
        /\ PickedGood(pc', picked', holds')
    BY <1>2, <2>5, <2>6, Moved DEF At, Steps, turnVars
  <2>8. RestStep
    BY <1>2, <2>5, <2>7, Kept DEF RestStep, IInv, TypeOK, turnVars, wakerVars
  <2> QED
    BY <2>5, <2>8
<1> QED
  BY <1>1, <1>2 DEF RecordApprovalSpent

\* RedeemHeldCall: a hold that was redeemed is not redeemed again.
LEMMA InvokeStep ==
    ASSUME IInv, NEW t \in Turns, InvokeTool(t)
    PROVE  HoldsStep /\ ThreadsStep /\ RestStep
<1> t \in Waiters
  BY DEF Waiters
<1> DEFINE h == picked[t]
           r == [holds[h] EXCEPT !.redeemed = @ + 1]
<1>0. h \in 0 .. Len(holds) /\ holds \in Seq(Holds) /\ HoldsGood(holds) /\ ran \in Seq(0 .. Len(holds))
  BY DEF IInv, TypeOK
<1>1. HoldsStep /\ ThreadsStep
  <2>1. redeemableHold(h, call[t]) => HoldsStep
    <3> SUFFICES ASSUME redeemableHold(h, call[t]) PROVE HoldsStep
      OBVIOUS
    <3>1. h \in DOMAIN holds /\ holds[h].state \in Approved /\ holds[h].redeemed = 0
      BY <1>0, LenProperties DEF redeemableHold, Approved
    <3>2. holds[h] \in Holds
      BY <1>0, <3>1, ElementOfSeq, LenProperties
    <3>3. /\ r \in Holds /\ r.state = holds[h].state /\ r.reason = holds[h].reason
          /\ r.redeemed = 1
      BY <3>1, <3>2 DEF Holds
    <3>4. holds' = [holds EXCEPT ![h] = r]
      BY DEF InvokeTool
    <3>5. Approves(holds[h].reason)
      BY <1>0, <3>1 DEF HoldsGood
    <3>6. /\ r.redeemed <= 1 /\ r.state \in Approved /\ Approves(r.reason)
      BY <3>1, <3>3, <3>5
    <3> HIDE DEF r, h
    <3> QED
      BY <3>1, <3>3, <3>4, <3>6, HoldReplaced
  <2>2. ~redeemableHold(h, call[t]) => HoldsStep
    BY HoldsUnchanged DEF InvokeTool
  <2> QED
    BY <2>1, <2>2, ThreadsUnchanged DEF InvokeTool
<1>2. /\ pc' \in [Waiters -> Steps]
      /\ WaitersGood(pc', thread', threads')
      /\ PickedGood(pc', picked', holds')
  BY <1>1, Moved DEF InvokeTool, At, turnVars, Steps
<1>3. ran' \in Seq(0 .. Len(holds'))
  <2>1. ran \in Seq(0 .. Len(holds')) /\ picked[t] \in 0 .. Len(holds')
    BY <1>1, Kept
  <2> QED
    BY <2>1, AppendProperties DEF InvokeTool
<1>4. RestStep
  BY <1>1, <1>2, <1>3, Kept DEF RestStep, IInv, TypeOK, InvokeTool, turnVars, wakerVars
<1> QED
  BY <1>1, <1>4

\* The task is stopped.
LEMMA StopTaskStep ==
    ASSUME IInv, StopTask
    PROVE  HoldsStep /\ ThreadsStep /\ RestStep
<1>1. HoldsStep /\ ThreadsStep
  BY Idle DEF StopTask
<1>2. RestStep
  BY <1>1, Kept DEF RestStep, IInv, TypeOK, StopTask, turnVars, wakerVars, Statuses
<1> QED
  BY <1>1, <1>2

\* beginReawaiting reads the pending hold.
LEMMA BeginReawaitingStep ==
    ASSUME IInv, NEW w \in Wakers, beginReawaiting(w)
    PROVE  HoldsStep /\ ThreadsStep /\ RestStep
<1>1. HoldsStep /\ ThreadsStep
  BY Idle DEF beginReawaiting
<1>2. /\ pc' \in [Waiters -> Steps]
      /\ WaitersGood(pc', thread', threads')
      /\ PickedGood(pc', picked', holds')
  BY <1>1, Moved DEF beginReawaiting, turnVars, Waiters, Steps
<1>3. found' \in [Wakers -> [hold : 0 .. Len(holds'), isPosted : BOOLEAN]]
  <2>1. InState("pending") \in SUBSET DOMAIN holds /\ holds \in Seq(Holds)
    BY DEF InState, IInv, TypeOK
  <2>2. PendingHold \in 0 .. Len(holds)
    BY <2>1, LatestIsAMember, LenProperties DEF PendingHold
  <2>3. approvalQuestionIsPosted \in BOOLEAN
    BY DEF approvalQuestionIsPosted
  <2> HIDE DEF PendingHold, approvalQuestionIsPosted
  <2> QED
    BY <2>2, <2>3 DEF beginReawaiting, IInv, TypeOK
<1>4. RestStep
  BY <1>1, <1>2, <1>3, Kept DEF RestStep, IInv, TypeOK, beginReawaiting, turnVars
<1> QED
  BY <1>1, <1>4

\* A waker resumes the run.
LEMMA ResumeStep ==
    ASSUME IInv, NEW w \in Wakers, resumeTaskRun(w)
    PROVE  HoldsStep /\ ThreadsStep /\ RestStep
<1>1. HoldsStep /\ ThreadsStep
  BY Idle DEF resumeTaskRun
<1>2. pc \in [Waiters -> Steps] /\ w \in Waiters /\ Turns \subseteq Waiters
  BY DEF IInv, TypeOK, Waiters
<1>3. /\ pc' \in [Waiters -> Steps]
      /\ \A u \in Waiters : pc'[u] = pc[u] \/ pc'[u] \in {"carrying", "working", "idle"}
  BY <1>2 DEF resumeTaskRun, Steps
<1>4. WaitersGood(pc', thread', threads') /\ PickedGood(pc', picked', holds')
  <2>1. WaitersGood(pc, thread, threads') /\ PickedGood(pc, picked, holds')
    BY <1>1, Kept
  <2>2. thread' = thread /\ picked' = picked
    BY DEF resumeTaskRun, turnVars
  <2> QED
    BY <1>2, <1>3, <2>1, <2>2 DEF WaitersGood, PickedGood
<1>5. status' \in Statuses /\ carries' \in [Wakers -> Turns \cup {None}]
  <2>1. status \in Statuses /\ carries \in [Wakers -> Turns \cup {None}]
    BY DEF IInv, TypeOK
  <2>2. status' = "running" \/ status' = status
    BY DEF resumeTaskRun, Launch
  <2>3. carries' \in [Wakers -> Turns \cup {None}]
    BY <2>1 DEF resumeTaskRun
  <2> QED
    BY <2>1, <2>2, <2>3 DEF Statuses
<1>6. RestStep
  BY <1>1, <1>3, <1>4, <1>5, Kept DEF RestStep, IInv, TypeOK, resumeTaskRun, leave, turnVars
<1> QED
  BY <1>1, <1>6

\* The requester writes a message.
LEMMA WriteReplyStep ==
    ASSUME IInv, NEW r \in Replies, NEW m \in Meanings, WriteReply(r, m)
    PROVE  HoldsStep /\ ThreadsStep /\ RestStep
<1>1. HoldsStep /\ ThreadsStep
  BY Idle DEF WriteReply
<1>2. WaitersGood(pc', thread', threads') /\ PickedGood(pc', picked', holds') /\ pc' \in [Waiters -> Steps]
  BY <1>1, Kept DEF WriteReply, turnVars, IInv, TypeOK
<1>3. PostedQuestion \in 0 .. MaxHolds
  <2>1. holds \in Seq(Holds) /\ Len(holds) <= MaxHolds
    BY DEF IInv, TypeOK
  <2>2. PostedQuestion \in DOMAIN holds \cup {0}
    BY <2>1, LatestIsAMember DEF PostedQuestion
  <2> QED
    BY <2>1, <2>2, LenProperties, ConstantsAssumption
<1>4. [seen |-> PostedQuestion, meaning |-> m] \in Reasons
  BY <1>3 DEF Reasons
<1>5. /\ replies' \in [Replies -> [at : {"unwritten", "sent", "read", "done"},
                               reason : Reasons, thread : 0 .. Len(threads')]]
      /\ RepliesGood(replies', threads')
  <2> DEFINE reply == [at |-> "sent", thread |-> 0,
                       reason |-> [seen |-> PostedQuestion, meaning |-> m]]
  <2>1. /\ replies \in [Replies -> [at : {"unwritten", "sent", "read", "done"},
                                   reason : Reasons, thread : 0 .. Len(threads')]]
        /\ RepliesGood(replies, threads') /\ Len(threads') \in Nat
    BY <1>1, Kept, LenProperties DEF ThreadsStep
  <2>2. reply \in [at : {"unwritten", "sent", "read", "done"},
                   reason : Reasons, thread : 0 .. Len(threads')] /\ reply.at = "sent" /\ reply.thread = 0
    BY <1>4, <2>1
  <2>3. replies' = [replies EXCEPT ![r] = reply]
    BY DEF WriteReply, ReplyAt
  <2> HIDE DEF reply
  <2> QED
    BY <2>1, <2>2, <2>3 DEF RepliesGood
<1>6. RestStep
  BY <1>1, <1>2, <1>5, Kept DEF RestStep, IInv, TypeOK, WriteReply, turnVars, wakerVars
<1> QED
  BY <1>1, <1>6

\* A message is matched with an open thread.
LEMMA AnswerThreadsStep ==
    ASSUME IInv, NEW r \in Replies, answerAwaitingThreads(r)
    PROVE  HoldsStep /\ ThreadsStep /\ RestStep
<1>1. HoldsStep /\ ThreadsStep
  BY Idle DEF answerAwaitingThreads
<1>2. WaitersGood(pc', thread', threads') /\ PickedGood(pc', picked', holds') /\ pc' \in [Waiters -> Steps]
  BY <1>1, Kept DEF answerAwaitingThreads, turnVars, IInv, TypeOK
<1>3. FirstUnclaimed \in DOMAIN threads' \cup {0}
  BY FirstUnclaimedIsUnclaimed DEF answerAwaitingThreads, Unclaimed, IInv, TypeOK
<1>4. /\ replies' \in [Replies -> [at : {"unwritten", "sent", "read", "done"},
                               reason : Reasons, thread : 0 .. Len(threads')]]
      /\ RepliesGood(replies', threads')
  <2> DEFINE reply == [replies[r] EXCEPT
                  !.at = IF FirstUnclaimed = 0 THEN "done" ELSE "read",
                  !.thread = FirstUnclaimed]
  <2>1. /\ replies \in [Replies -> [at : {"unwritten", "sent", "read", "done"},
                                   reason : Reasons, thread : 0 .. Len(threads')]]
        /\ RepliesGood(replies, threads') /\ Len(threads') \in Nat
    BY <1>1, Kept, LenProperties DEF ThreadsStep
  <2>2. DOMAIN threads' = 1 .. Len(threads')
    BY <1>1, LenProperties DEF ThreadsStep
  <2>3. FirstUnclaimed \in 0 .. Len(threads')
    BY <1>3, <2>1, <2>2
  <2>4. /\ reply \in [at : {"unwritten", "sent", "read", "done"},
                      reason : Reasons, thread : 0 .. Len(threads')]
        /\ IF reply.at = "read" THEN reply.thread \in DOMAIN threads' ELSE reply.thread = 0
    <3> DEFINE at == IF FirstUnclaimed = 0 THEN "done" ELSE "read"
               f == FirstUnclaimed
    <3>1. at \in {"done", "read"} /\ (at = "read" <=> f # 0)
      OBVIOUS
    <3>2. f \in 0 .. Len(threads') /\ (f # 0 => f \in DOMAIN threads')
      BY <1>3, <2>3
    <3>3. reply = [replies[r] EXCEPT !.at = at, !.thread = f]
      OBVIOUS
    <3> HIDE DEF at, f, reply
    <3> QED
      BY <2>1, <3>1, <3>2, <3>3
  <2>5. replies' = [replies EXCEPT ![r] = reply]
    BY DEF answerAwaitingThreads, ReplyAt
  <2> HIDE DEF reply
  <2> QED
    BY <2>1, <2>4, <2>5 DEF RepliesGood
<1>5. RestStep
  BY <1>1, <1>2, <1>4, Kept DEF RestStep, IInv, TypeOK, answerAwaitingThreads, turnVars, wakerVars
<1> QED
  BY <1>1, <1>5

\* A message claims the thread it was read against.
LEMMA SettleReplyStep ==
    ASSUME IInv, NEW r \in Replies, settleThreadWithReply(r)
    PROVE  HoldsStep /\ ThreadsStep /\ RestStep
<1> DEFINE i == replies[r].thread
           m == replies[r].reason.meaning
           a == [option |-> Reading(m, threads[i].offers), reason |-> replies[r].reason]
<1>1. HoldsStep /\ ThreadsStep
  <2>1. i \in DOMAIN threads /\ replies[r].reason \in Reasons
    BY DEF settleThreadWithReply, ReplyAt, IInv, TypeOK, RepliesGood
  <2>2. a \in Answers
    BY <2>1 DEF Answers, Options, Reading
  <2>3. a.option = "approve" => Approves(a.reason)
    BY DEF Reading, Approves
  <2>4. UNCHANGED threads \/ (~threads[i].isClaimed /\ claim(i, a))
    BY DEF settleThreadWithReply
  <2> HIDE DEF i, a
  <2>5. ThreadsStep
    BY <2>1, <2>2, <2>3, <2>4, ClaimKeeps, ThreadsUnchanged
  <2> QED
    BY <2>5, HoldsUnchanged DEF settleThreadWithReply
<1>2. WaitersGood(pc', thread', threads') /\ PickedGood(pc', picked', holds') /\ pc' \in [Waiters -> Steps]
  BY <1>1, Kept DEF settleThreadWithReply, turnVars, IInv, TypeOK
<1>3. /\ replies' \in [Replies -> [at : {"unwritten", "sent", "read", "done"},
                               reason : Reasons, thread : 0 .. Len(threads')]]
      /\ RepliesGood(replies', threads')
  <2> DEFINE reply == [replies[r] EXCEPT !.at = "done", !.thread = 0]
  <2>1. /\ replies \in [Replies -> [at : {"unwritten", "sent", "read", "done"},
                                   reason : Reasons, thread : 0 .. Len(threads')]]
        /\ RepliesGood(replies, threads') /\ Len(threads') \in Nat
    BY <1>1, Kept, LenProperties DEF ThreadsStep
  <2>2. reply \in [at : {"unwritten", "sent", "read", "done"},
                   reason : Reasons, thread : 0 .. Len(threads')] /\ reply.at = "done" /\ reply.thread = 0
    <3>1. replies[r] \in [at : {"unwritten", "sent", "read", "done"},
                         reason : Reasons, thread : 0 .. Len(threads')]
      BY <2>1
    <3>2. 0 \in 0 .. Len(threads')
      BY <2>1
    <3> QED
      BY <3>1, <3>2
  <2>3. replies' = [replies EXCEPT ![r] = reply]
    BY DEF settleThreadWithReply, ReplyAt
  <2> HIDE DEF reply
  <2> QED
    BY <2>1, <2>2, <2>3 DEF RepliesGood
<1>4. RestStep
  BY <1>1, <1>2, <1>3, Kept DEF RestStep, IInv, TypeOK, settleThreadWithReply, turnVars, wakerVars
<1> QED
  BY <1>1, <1>4

\* The operator's request is resolved.
LEMMA ResolveStep ==
    ASSUME IInv, NEW s \in Signals, resolveApproval(s)
    PROVE  HoldsStep /\ ThreadsStep /\ RestStep
<1>1. HoldsStep /\ ThreadsStep
  BY Idle DEF resolveApproval
<1>2. WaitersGood(pc', thread', threads') /\ PickedGood(pc', picked', holds') /\ pc' \in [Waiters -> Steps]
  BY <1>1, Kept DEF resolveApproval, turnVars, IInv, TypeOK
<1>3. RestStep
  BY <1>1, <1>2, Kept, ConstantsAssumption DEF RestStep, IInv, TypeOK, resolveApproval, turnVars, wakerVars
<1> QED
  BY <1>1, <1>3

\* The operator answers an open thread.
LEMMA AnswerHoldStep ==
    ASSUME IInv, AnswerAwaitedHold
    PROVE  HoldsStep /\ ThreadsStep /\ RestStep
<1> DEFINE i == FirstUnclaimed
           a == [option |-> operator.signal, reason |-> ByOperator]
<1>1. HoldsStep /\ ThreadsStep
  <2>1. i # 0 => i \in DOMAIN threads /\ ~threads[i].isClaimed
    BY FirstUnclaimedIsUnclaimed DEF Unclaimed, IInv, TypeOK
  <2>2. ByOperator \in Reasons /\ Approves(ByOperator)
    BY ConstantsAssumption DEF ByOperator, Reasons, Approves
  <2>3. a \in Answers /\ Approves(a.reason)
    BY <2>2 DEF Answers, Options, IInv, TypeOK
  <2>4. UNCHANGED threads \/ (i # 0 /\ claim(i, a))
    BY DEF AnswerAwaitedHold
  <2> HIDE DEF i, a
  <2>5. ThreadsStep
    BY <2>1, <2>3, <2>4, ClaimKeeps, ThreadsUnchanged
  <2> QED
    BY <2>5, HoldsUnchanged DEF AnswerAwaitedHold
<1>2. WaitersGood(pc', thread', threads') /\ PickedGood(pc', picked', holds') /\ pc' \in [Waiters -> Steps]
  BY <1>1, Kept DEF AnswerAwaitedHold, turnVars, IInv, TypeOK
<1>3. operator' \in [at : {"idle", "resolved", "deciding", "launching"},
                    signal : {"approve", "reject"}]
  BY DEF AnswerAwaitedHold, OperatorAt, IInv, TypeOK
<1>4. RestStep
  BY <1>1, <1>2, <1>3, Kept DEF RestStep, IInv, TypeOK, AnswerAwaitedHold, turnVars, wakerVars
<1> QED
  BY <1>1, <1>4

\* The operator decides a hold nobody waits on.
LEMMA DecideStep ==
    ASSUME IInv, DecideHold
    PROVE  HoldsStep /\ ThreadsStep /\ RestStep
<1>1. HoldsStep /\ ThreadsStep
  <2>1. ByOperator \in Reasons /\ Approves(ByOperator)
    BY ConstantsAssumption DEF ByOperator, Reasons, Approves
  <2>2. HoldsStep
    BY <2>1, SettleKeeps DEF DecideHold
  <2> QED
    BY <2>2, ThreadsUnchanged DEF DecideHold
<1>2. WaitersGood(pc', thread', threads') /\ PickedGood(pc', picked', holds') /\ pc' \in [Waiters -> Steps]
  BY <1>1, Kept DEF DecideHold, turnVars, IInv, TypeOK
<1>3. operator' \in [at : {"idle", "resolved", "deciding", "launching"},
                    signal : {"approve", "reject"}]
  BY DEF DecideHold, OperatorAt, IInv, TypeOK
<1>4. RestStep
  BY <1>1, <1>2, <1>3, Kept DEF RestStep, IInv, TypeOK, DecideHold, turnVars, wakerVars
<1> QED
  BY <1>1, <1>4

\* The operator's request launches the run.
LEMMA LaunchDecidedStep ==
    ASSUME IInv, LaunchDecided
    PROVE  HoldsStep /\ ThreadsStep /\ RestStep
<1>1. HoldsStep /\ ThreadsStep
  BY Idle DEF LaunchDecided
<1>2. pc \in [Waiters -> Steps] /\ Turns \subseteq Waiters
  BY DEF IInv, TypeOK, Waiters
<1>3. /\ pc' \in [Waiters -> Steps]
      /\ \A u \in Waiters : pc'[u] = pc[u] \/ pc'[u] = "working"
  BY <1>2 DEF LaunchDecided, Steps
<1>4. WaitersGood(pc', thread', threads') /\ PickedGood(pc', picked', holds')
  <2>1. WaitersGood(pc, thread, threads') /\ PickedGood(pc, picked, holds')
    BY <1>1, Kept
  <2>2. thread' = thread /\ picked' = picked
    BY DEF LaunchDecided, turnVars
  <2> QED
    BY <1>2, <1>3, <2>1, <2>2 DEF WaitersGood, PickedGood
<1>5. status' \in Statuses
  <2>1. status \in Statuses
    BY DEF IInv, TypeOK
  <2>2. status' = "running" \/ status' = status
    BY DEF LaunchDecided, Launch
  <2> QED
    BY <2>1, <2>2 DEF Statuses
<1>6. operator' \in [at : {"idle", "resolved", "deciding", "launching"},
                    signal : {"approve", "reject"}]
  BY DEF LaunchDecided, OperatorAt, IInv, TypeOK
<1>7. RestStep
  BY <1>1, <1>3, <1>4, <1>5, <1>6, Kept DEF RestStep, IInv, TypeOK, LaunchDecided, turnVars, wakerVars
<1> QED
  BY <1>1, <1>7

\* A restart forgets the threads and keeps the holds.
LEMMA RestartStep ==
    ASSUME IInv, Restart
    PROVE  IInv'
<1>1. HoldsStep
  BY HoldsUnchanged DEF Restart
<1>2. threads' \in Seq(Threads) /\ Len(threads') = 0 /\ DOMAIN threads' = {}
  <2>1. threads' = <<>>
    BY DEF Restart
  <2> QED
    BY <2>1
<1>3. pc' \in [Waiters -> {"boot", "idle"}]
  BY DEF Restart
<1>4. /\ ThreadsGood(threads')
      /\ WaitersGood(pc', thread', threads')
      /\ PickedGood(pc', picked', holds')
  <2>1. Turns \subseteq Waiters
    BY DEF Waiters
  <2>2. \A u \in Waiters : pc'[u] \in {"boot", "idle"}
    BY <1>3
  <2> QED
    BY <1>2, <2>1, <2>2 DEF ThreadsGood, WaitersGood, PickedGood
<1>5. status' \in Statuses
  BY DEF Restart, Statuses, IInv, TypeOK
<1>6. thread' \in [Waiters -> 0 .. Len(threads')] /\ joined' \subseteq DOMAIN threads'
  <2>1. thread' = [w \in Waiters |-> 0] /\ joined' = {}
    BY DEF Restart
  <2>2. 0 \in 0 .. Len(threads')
    BY <1>2
  <2> QED
    BY <2>1, <2>2
<1>7. pc' \in [Waiters -> Steps]
  BY <1>3 DEF Steps
<1>8. restarts' \in 0 .. MaxRestarts
  <2>1. restarts \in 0 .. MaxRestarts /\ restarts < MaxRestarts /\ restarts' = restarts + 1
    BY DEF Restart, IInv, TypeOK
  <2> QED
    BY <2>1, ConstantsAssumption
<1>9. operator' \in [at : {"idle", "resolved", "deciding", "launching"},
                    signal : {"approve", "reject"}]
  BY DEF Restart, IInv, TypeOK
<1>10. /\ call' \in [Turns -> Calls]
       /\ picked' \in [Turns -> 0 .. Len(holds')]
       /\ found' \in [Wakers -> [hold : 0 .. Len(holds'), isPosted : BOOLEAN]]
       /\ carries' \in [Wakers -> Turns \cup {None}]
       /\ ran' \in Seq(0 .. Len(holds'))
  BY DEF Restart, turnVars, wakerVars, IInv, TypeOK
<1>11. /\ replies' \in [Replies -> [at : {"unwritten", "sent", "read", "done"},
                                   reason : Reasons, thread : 0 .. Len(threads')]]
       /\ RepliesGood(replies', threads')
  <2>1. \A r \in Replies : replies[r].at # "read" => replies[r].thread = 0
    BY DEF IInv, RepliesGood
  <2>2. 0 \in 0 .. Len(threads')
    BY <1>2
  <2>4. replies' \in [Replies -> [at : {"unwritten", "sent", "done"},
                                   reason : Reasons, thread : {0}]]
    <3> SUFFICES ASSUME NEW r \in Replies
                 PROVE  (IF replies[r].at = "read"
                         THEN [replies[r] EXCEPT !.at = "sent", !.thread = 0]
                         ELSE replies[r])
                          \in [at : {"unwritten", "sent", "done"}, reason : Reasons, thread : {0}]
      BY DEF Restart
    <3> DEFINE q == replies[r]
    <3>0. /\ q \in [at : {"unwritten", "sent", "read", "done"}, reason : Reasons,
                    thread : 0 .. Len(threads)]
          /\ q.at # "read" => q.thread = 0
      BY <2>1 DEF IInv, TypeOK
    <3> HIDE DEF q
    <3>1. [q EXCEPT !.at = "sent", !.thread = 0]
            \in [at : {"unwritten", "sent", "done"}, reason : Reasons, thread : {0}]
      BY <3>0
    <3>2. q.at # "read"
            => q \in [at : {"unwritten", "sent", "done"}, reason : Reasons, thread : {0}]
      BY <3>0
    <3>3. (IF q.at = "read" THEN [q EXCEPT !.at = "sent", !.thread = 0] ELSE q)
            \in [at : {"unwritten", "sent", "done"}, reason : Reasons, thread : {0}]
      BY <3>1, <3>2
    <3> QED
      BY <3>3 DEF q
  <2> QED
    BY <1>2, <2>2, <2>4 DEF RepliesGood
<1> QED
  BY <1>1, <1>2, <1>4, <1>5, <1>6, <1>7, <1>8, <1>9, <1>10, <1>11
     DEF IInv, TypeOK, HoldsStep
----------------------------------------------------------------------------
\* The invariant holds at the start.
LEMMA InitIInv ==
    ASSUME Init
    PROVE  IInv
<1>1. /\ holds \in Seq(Holds) /\ Len(holds) = 0 /\ DOMAIN holds = {}
      /\ threads \in Seq(Threads) /\ Len(threads) = 0 /\ DOMAIN threads = {}
  BY DEF Init
<1>2. MaxHolds \in Nat /\ MaxRestarts \in Nat /\ Calls # {}
  BY ConstantsAssumption
<1>3. Nobody \in Reasons
  BY <1>2 DEF Nobody, Reasons
<1>4. pc \in [Waiters -> {"working", "idle"}]
  BY DEF Init
<1>5. pc \in [Waiters -> Steps]
  BY <1>4 DEF Steps
<1>6. call \in [Turns -> Calls]
  <2>1. (CHOOSE c \in Calls : TRUE) \in Calls
    BY <1>2
  <2> QED
    BY <2>1 DEF Init
<1>7. /\ replies \in [Replies -> [at : {"unwritten", "sent", "read", "done"},
                                   reason : Reasons, thread : 0 .. Len(threads)]]
      /\ RepliesGood(replies, threads)
  BY <1>1, <1>3 DEF Init, RepliesGood
<1>8. /\ thread \in [Waiters -> 0 .. Len(threads)] /\ joined \subseteq DOMAIN threads
      /\ picked \in [Turns -> 0 .. Len(holds)]
      /\ found \in [Wakers -> [hold : 0 .. Len(holds), isPosted : BOOLEAN]]
      /\ carries \in [Wakers -> Turns \cup {None}]
  BY <1>1 DEF Init
<1>9. ran \in Seq(0 .. Len(holds)) /\ restarts \in 0 .. MaxRestarts /\ Len(holds) <= MaxHolds
  BY <1>1, <1>2 DEF Init
<1>10. /\ operator \in [at : {"idle", "resolved", "deciding", "launching"},
                    signal : {"approve", "reject"}]
       /\ status \in Statuses
  BY DEF Init, Statuses
<1>11. TypeOK
  BY <1>1, <1>5, <1>6, <1>7, <1>8, <1>9, <1>10 DEF TypeOK
<1>12. HoldsGood(holds) /\ ThreadsGood(threads)
  BY <1>1 DEF HoldsGood, ThreadsGood
<1>13. WaitersGood(pc, thread, threads) /\ PickedGood(pc, picked, holds)
  <2>1. \A w \in Waiters : pc[w] \in {"working", "idle"}
    BY <1>4
  <2> QED
    BY <2>1 DEF WaitersGood, PickedGood, Waiters
<1> QED
  BY <1>7, <1>11, <1>12, <1>13 DEF IInv

\* Every step but a restart keeps the holds, the threads and the rest in order.
LEMMA OrdinaryStep ==
    ASSUME IInv, Next, ~Restart
    PROVE  HoldsStep /\ ThreadsStep /\ RestStep
<1>1. CASE \E t \in Turns : TurnStep(t)
  BY <1>1, ReviewStep, HoldCallStep, AskStep, DeliverStep, EndUnansweredStep, SpendStep,
     InvokeStep, EndTurnStep DEF TurnStep
<1>2. CASE \E w \in Wakers : WakerStep(w)
  BY <1>2, BeginReawaitingStep, NothingHeldStep, JoinAgainStep, AwaitReawakenedStep,
     FailUnansweredStep, ResumeStep, EndCarryingStep DEF WakerStep
<1>3. CASE \E w \in Waiters : WaiterStep(w)
  BY <1>3, AwaitStep, AdvanceStep, SettleStep DEF WaiterStep
<1>4. CASE \E r \in Replies : ReplyStep(r)
  BY <1>4, WriteReplyStep, AnswerThreadsStep, SettleReplyStep DEF ReplyStep
<1>5. CASE OperatorStep
  BY <1>5, ResolveStep, AnswerHoldStep, DecideStep, LaunchDecidedStep DEF OperatorStep
<1>6. CASE StopTask
  BY <1>6, StopTaskStep
<1> QED
  BY <1>1, <1>2, <1>3, <1>4, <1>5, <1>6 DEF Next

\* Every step keeps the invariant.
LEMMA NextIInv ==
    ASSUME IInv, [Next]_vars
    PROVE  IInv'
<1>1. CASE Restart
  BY <1>1, RestartStep
<1>2. CASE Next /\ ~Restart
  BY <1>2, OrdinaryStep, Together
<1>3. CASE UNCHANGED vars
  BY <1>3 DEF vars, IInv, TypeOK
<1> QED
  BY <1>1, <1>2, <1>3

\* The inductive invariant holds in every reachable state.
THEOREM Invariance == Spec => []IInv
BY InitIInv, NextIInv, PTL DEF Spec

\* Every variable keeps its type: the variables of the gate, of the asking
\* threads, of the messages and of the operator's endpoint.
THEOREM TypeCorrect == Spec => []TypeOK
<1>1. IInv => TypeOK
  BY DEF IInv
<1> QED
  BY <1>1, Invariance, PTL

\* One approval carries out one call: RedeemHeldCall lets a hold through at most
\* once, and only when a message of the requester or the operator approved it,
\* however many turns, wakers, messages and operators race.
THEOREM RedeemedOnce == Spec => []OneApprovalCarriesOutOneCall
<1>1. IInv => OneApprovalCarriesOutOneCall
  BY DEF IInv, HoldsGood, Approved, Approves, OneApprovalCarriesOutOneCall
<1> QED
  BY <1>1, Invariance, PTL

\* The first answer of a thread stands: claim lets one of the messages and
\* operators that answer it through.
THEOREM AnswersStand == Spec => FirstAnswerStands
<1> DEFINE Stands == \A i \in DOMAIN threads :
                        threads[i].answer # None /\ threads' # <<>>
                           => threads'[i].answer = threads[i].answer
<1>1. ASSUME IInv, [Next]_vars
      PROVE  [Stands]_vars
  <2>1. CASE Restart
    BY <2>1 DEF Restart
  <2>2. CASE Next /\ ~Restart
    <3>1. ThreadsStep
      BY <1>1, <2>2, OrdinaryStep
    <3> QED
      BY <3>1 DEF ThreadsStep
  <2> QED
    BY <1>1, <2>1, <2>2
<1> QED
  BY <1>1, Invariance, PTL DEF Spec, FirstAnswerStands
=============================================================================
