--------------------------- MODULE DebugInfo_proofs ---------------------------
(***************************************************************************)
(* Proofs that collect_additional_debug_information writes no pair past    *)
(* its allocation, and that the vector it ends holds exactly the entries  *)
(* whose method answered, for every configured list and every pattern of *)
(* failures.                                                              *)
(***************************************************************************)
EXTENDS DebugInfo, SequenceTheorems, TLAPS

Entry == [len : Nat \ {0}, fqdn : BOOLEAN]
Pair == [label : Int, data : Int]

TypeOK ==
    /\ config \in Seq(Entry)
    /\ pc \in {"alloc", "loop", "term", "size", "write", "done", "crash"}
    /\ cap \in Nat /\ iter \in Nat \ {0} /\ info \in Nat
    /\ vec \in [0..(cap - 1) -> Pair]
    /\ collected \in Seq([label : Nat \ {0}, data : Nat])
    /\ vecOverflow \in BOOLEAN

(* While the loop runs, info is behind the entry the loop is at, the pairs *)
(* before info are the collected ones, and those after it are untouched;  *)
(* the pair at info is untouched until the loop ends.                     *)
Filling ==
    pc \in {"loop", "term"} =>
        /\ cap = Cnt + 1 /\ iter <= Cnt + 1 /\ info <= iter - 1
        /\ info = Len(collected)
        /\ \A j \in 0..(info - 1) : vec[j] = collected[j + 1]
        /\ \A j \in (info + 1)..(cap - 1) : vec[j].label = Unset
        /\ pc = "loop" => vec[info].label = Unset

Fresh == pc = "alloc" => cap = 0 /\ iter = 1 /\ info = 0 /\ collected = <<>>

IInv ==
    /\ TypeOK /\ Fresh /\ Filling
    /\ VectorWithinAllocation /\ VectorMatchesCalls
(* Pairs, as a function of the vector and its size.                       *)
PairsOf(v, c) ==
    LET ends == {j \in 0..(c - 1) : v[j].label = NullPtr}
        n == IF ends = {} THEN c
             ELSE CHOOSE j \in ends : \A j2 \in ends : j <= j2
    IN [j \in 1..n |-> v[j - 1]]

LEMMA PairsIsPairsOf == Pairs = PairsOf(vec, cap)
BY DEF Pairs, PairsOf

(* The least element of a set of integers is the one CHOOSE picks.        *)
LEMMA LeastChosen ==
    ASSUME NEW S \in SUBSET Int, NEW m \in S, \A x \in S : m <= x
    PROVE  (CHOOSE j \in S : \A j2 \in S : j <= j2) = m
<1>1. \E j \in S : \A j2 \in S : j <= j2
  OBVIOUS
<1>2. PICK c \in S : c = CHOOSE j \in S : \A j2 \in S : j <= j2
  BY <1>1
<1>3. \A j2 \in S : c <= j2
  BY <1>1, <1>2
<1>. QED BY <1>2, <1>3

(* A vector whose first NULL label is at m renders its first m pairs.     *)
LEMMA PairsUpToNull ==
    ASSUME NEW c \in Nat, NEW v \in [0..(c - 1) -> Pair], NEW m \in 0..(c - 1),
           v[m].label = NullPtr, \A j \in 0..(m - 1) : v[j].label # NullPtr
    PROVE  PairsOf(v, c) = [j \in 1..m |-> v[j - 1]]
<1> DEFINE ends == {j \in 0..(c - 1) : v[j].label = NullPtr}
<1>1. m \in ends /\ ends \in SUBSET Int
  OBVIOUS
<1>2. \A x \in ends : m <= x
  OBVIOUS
<1>3. (CHOOSE j \in ends : \A j2 \in ends : j <= j2) = m
  BY <1>1, <1>2, LeastChosen
<1>. QED BY <1>1, <1>3 DEF PairsOf
-----------------------------------------------------------------------------
LEMMA InitIInv == Init => IInv
<1> SUFFICES ASSUME Init PROVE IInv
  OBVIOUS
<1>1. config \in Seq(Entry)
  BY DebugInfoAssumption DEF Init, Entry
<1>2. vec \in [0..(cap - 1) -> Pair]
  <2>1. 0..(cap - 1) = {} /\ DOMAIN vec = {}
    BY DEF Init
  <2>2. vec = [j \in 0..(cap - 1) |-> vec[j]]
    BY <2>1 DEF Init
  <2>. QED BY <2>1, <2>2
<1>3. collected \in Seq([label : Nat \ {0}, data : Nat])
  BY DEF Init
<1>4. pc \in {"alloc", "loop", "term", "size", "write", "done", "crash"}
      /\ vecOverflow \in BOOLEAN
  BY Zenon DEF Init
<1>5. cap \in Nat /\ iter \in Nat \ {0} /\ info \in Nat
  BY DEF Init
<1>6. TypeOK
  BY <1>1, <1>2, <1>3, <1>4, <1>5 DEF TypeOK
<1>. QED BY <1>6 DEF Init, IInv, Fresh, Filling, VectorWithinAllocation, VectorMatchesCalls
(* A step of the loop that only leaves it.                                *)
LEMMA LoopToTerm ==
    ASSUME IInv, pc = "loop", pc' = "term",
           UNCHANGED <<config, cap, vec, iter, info, collected, vecOverflow>>
    PROVE  IInv'
BY DEF IInv, TypeOK, Fresh, Filling, VectorWithinAllocation, VectorMatchesCalls, Cnt

(* A step of info_pair_vector_to_string, which reads the vector only.      *)
LEMMA RenderFrame ==
    ASSUME IInv, pc \in {"size", "write"}, pc' \in {"write", "done"},
           UNCHANGED <<config, cap, vec, iter, info, collected, vecOverflow>>
    PROVE  IInv'
<1>1. TypeOK'
  BY DEF IInv, TypeOK
<1>2. Pairs' = Pairs
  BY DEF Pairs
<1>. QED BY <1>1, <1>2 DEF IInv, Fresh, Filling, VectorWithinAllocation, VectorMatchesCalls

LEMMA CollectAllocStep == ASSUME IInv, CollectAlloc PROVE IInv'
<1>1. PICK ok \in CanFail :
        IF ok THEN /\ cap' = Cnt + 1 /\ vec' = [j \in 0..Cnt |-> [label |-> Unset, data |-> Unset]]
                   /\ pc' = "loop"
              ELSE pc' = "done" /\ UNCHANGED <<cap, vec>>
  BY DEF CollectAlloc
<1>2. UNCHANGED <<config, iter, info, collected, vecOverflow>>
  BY DEF CollectAlloc
<1>3. /\ cap = 0 /\ iter = 1 /\ info = 0 /\ collected = <<>>
      /\ config \in Seq(Entry) /\ ~vecOverflow
  BY DEF CollectAlloc, IInv, Fresh, TypeOK, VectorWithinAllocation
<1>4. CASE ok
  <2>1. /\ cap' = Len(config) + 1
        /\ vec' = [j \in 0..Len(config) |-> [label |-> Unset, data |-> Unset]]
        /\ pc' = "loop"
    BY <1>1, <1>4 DEF Cnt
  <2>2. TypeOK'
    <3>1. vec' \in [0..(cap' - 1) -> Pair]
      BY <1>3, <2>1 DEF Pair, Unset
    <3>2. pc' \in {"alloc", "loop", "term", "size", "write", "done", "crash"}
      BY <2>1
    <3>. QED BY <1>2, <1>3, <2>1, <3>1, <3>2 DEF IInv, TypeOK
  <2>3. Filling'
    BY <1>2, <1>3, <2>1 DEF Filling, Cnt
  <2>. QED BY <1>2, <1>3, <2>1, <2>2, <2>3
           DEF IInv, Fresh, VectorWithinAllocation, VectorMatchesCalls
<1>5. CASE ~ok
  <2>1. pc' = "done" /\ cap' = cap /\ vec' = vec
    BY <1>1, <1>5
  <2>2. TypeOK'
    BY <1>2, <2>1 DEF IInv, TypeOK
  <2>. QED BY <1>2, <1>3, <2>1, <2>2
           DEF IInv, Fresh, Filling, VectorWithinAllocation, VectorMatchesCalls
<1>. QED BY <1>4, <1>5

LEMMA EntrySkippedStep == ASSUME IInv, EntrySkipped PROVE IInv'
<1>1. iter <= Cnt /\ pc = "loop" /\ iter' = iter + 1
      /\ UNCHANGED <<config, pc, cap, vec, info, collected, vecOverflow>>
  BY DEF EntrySkipped
<1>2. TypeOK'
  BY <1>1 DEF IInv, TypeOK
<1>3. Filling'
  BY <1>1 DEF IInv, TypeOK, Filling, Cnt
<1>. QED BY <1>1, <1>2, <1>3 DEF IInv, Fresh, VectorWithinAllocation, VectorMatchesCalls

(* The pair at info, while the loop runs, lies inside the vector.          *)
LEMMA InfoInside ==
    ASSUME IInv, pc = "loop", iter <= Cnt
    PROVE  /\ info \in 0..(cap - 1) /\ info + 1 <= Cnt
           /\ iter \in 1..Len(config) /\ config[iter] \in Entry
BY DEF IInv, TypeOK, Filling, Cnt

LEMMA DataDupFailsStep == ASSUME IInv, DataDupFails PROVE IInv'
<1> DEFINE p == [label |-> config[iter].len, data |-> NullPtr]
<1>1. /\ pc = "loop" /\ iter <= Cnt /\ pc' = "term"
      /\ UNCHANGED <<config, cap, iter, info, collected>>
      /\ SetPair(info, p)
  BY DEF DataDupFails
<1>2. info \in 0..(cap - 1) /\ config[iter] \in Entry
  BY <1>1, InfoInside
<1>3. vec' = [vec EXCEPT ![info] = p] /\ vecOverflow' = vecOverflow
  BY <1>1, <1>2 DEF SetPair, IInv, TypeOK
<1>4. p \in Pair
  BY <1>2 DEF Entry, Pair, NullPtr
<1>5. TypeOK'
  BY <1>1, <1>3, <1>4 DEF IInv, TypeOK
<1>6. Filling'
  BY <1>1, <1>2, <1>3 DEF IInv, TypeOK, Filling, Cnt
<1>. QED BY <1>1, <1>3, <1>5, <1>6
         DEF IInv, Fresh, VectorWithinAllocation, VectorMatchesCalls
LEMMA CollectedStep == ASSUME IInv, Collected PROVE IInv'
<1>1. /\ pc = "loop" /\ iter <= Cnt
      /\ info' = info + 1 /\ iter' = iter + 1
      /\ UNCHANGED <<config, pc, cap>>
  BY DEF Collected
<1>2. PICK d \in DataLens :
        /\ SetPair(info, [label |-> config[iter].len, data |-> d])
        /\ collected' = Append(collected, [label |-> config[iter].len, data |-> d])
  BY DEF Collected
<1> DEFINE p == [label |-> config[iter].len, data |-> d]
<1>3. /\ info \in 0..(cap - 1) /\ info + 1 <= Cnt /\ config[iter] \in Entry
      /\ info = Len(collected) /\ info <= iter - 1
      /\ collected \in Seq([label : Nat \ {0}, data : Nat])
  BY <1>1, InfoInside DEF IInv, Filling, TypeOK
<1>4. p \in [label : Nat \ {0}, data : Nat] /\ p \in Pair
  BY <1>3, DebugInfoAssumption DEF Entry, Pair
<1>5. vec' = [vec EXCEPT ![info] = p] /\ vecOverflow' = vecOverflow
  BY <1>2, <1>3 DEF SetPair, IInv, TypeOK
<1>6. /\ collected' \in Seq([label : Nat \ {0}, data : Nat])
      /\ Len(collected') = info + 1
      /\ \A j \in 1..info : collected'[j] = collected[j]
      /\ collected'[info + 1] = p
  BY <1>2, <1>3, <1>4, AppendProperties
<1>7. TypeOK'
  <2>1. vec' \in [0..(cap' - 1) -> Pair]
    BY <1>1, <1>3, <1>4, <1>5 DEF IInv, TypeOK
  <2>2. iter' \in Nat \ {0} /\ info' \in Nat
    BY <1>1, <1>3 DEF IInv, TypeOK
  <2>. QED BY <1>1, <1>5, <1>6, <2>1, <2>2 DEF IInv, TypeOK
<1>8. Filling'
  <2>1. cap' = Cnt' + 1 /\ iter' <= Cnt' + 1 /\ info' <= iter' - 1 /\ info' = Len(collected')
    BY <1>1, <1>3, <1>6 DEF IInv, TypeOK, Filling, Cnt
  <2>0. /\ vec \in [0..(cap - 1) -> Pair]
        /\ \A j \in 0..(info - 1) : vec[j] = collected[j + 1]
        /\ \A j \in (info + 1)..(cap - 1) : vec[j].label = Unset
    BY <1>1 DEF IInv, TypeOK, Filling
  <2>2. ASSUME NEW j \in 0..(info' - 1) PROVE vec'[j] = collected'[j + 1]
    <3>1. CASE j = info
      BY <1>3, <1>5, <1>6, <2>0, <3>1
    <3>2. CASE j # info
      <4>1. j \in 0..(info - 1) /\ j + 1 \in 1..info
        BY <1>1, <1>3, <3>2
      <4>. QED BY <1>5, <1>6, <2>0, <4>1
    <3>. QED BY <3>1, <3>2
  <2>3. ASSUME NEW j \in (info' + 1)..(cap' - 1) PROVE vec'[j].label = Unset
    <4>1. j \in (info + 1)..(cap - 1) /\ j # info
      BY <1>1, <1>3
    <4>. QED BY <1>5, <2>0, <4>1
  <2>4. vec'[info'].label = Unset
    BY <1>1, <1>3, <1>5 DEF IInv, TypeOK, Filling, Cnt
  <2>. QED BY <1>1, <2>1, <2>2, <2>3, <2>4 DEF Filling
<1>. QED BY <1>1, <1>5, <1>7, <1>8
         DEF IInv, Fresh, VectorWithinAllocation, VectorMatchesCalls

LEMMA TerminateStep == ASSUME IInv, Terminate PROVE IInv'
<1> DEFINE p == [label |-> NullPtr, data |-> NullPtr]
<1>1. /\ pc = "term" /\ pc' = "size"
      /\ UNCHANGED <<config, cap, iter, info, collected>>
      /\ SetPair(info, p)
  BY DEF Terminate
<1>2. /\ info \in 0..(cap - 1) /\ cap \in Nat
      /\ info = Len(collected)
      /\ collected \in Seq([label : Nat \ {0}, data : Nat])
      /\ \A j \in 0..(info - 1) : vec[j] = collected[j + 1]
      /\ vec \in [0..(cap - 1) -> Pair]
  BY <1>1 DEF IInv, TypeOK, Filling, Cnt
<1>3. vec' = [vec EXCEPT ![info] = p] /\ vecOverflow' = vecOverflow
  <2>1. info < cap
    BY <1>2
  <2>2. vecOverflow \in BOOLEAN
    BY DEF IInv, TypeOK
  <2>. QED BY <1>1, <1>2, <2>1, <2>2 DEF SetPair
<1>4. vec' \in [0..(cap' - 1) -> Pair]
  <2>1. p \in Pair
    BY DEF Pair, NullPtr
  <2>. QED BY <1>1, <1>2, <1>3, <2>1
<1>5. Pairs' = collected'
  <2>1. /\ vec'[info].label = NullPtr
        /\ \A j \in 0..(info - 1) : vec'[j].label # NullPtr
    <3>1. info \in DOMAIN vec
      BY <1>2
    <3>2. vec'[info].label = NullPtr
      BY <1>3, <3>1
    <3>3. ASSUME NEW j \in 0..(info - 1) PROVE vec'[j].label # NullPtr
      <4>1. collected[j + 1] \in [label : Nat \ {0}, data : Nat]
        <5>1. j + 1 \in 1..Len(collected)
          BY <1>2
        <5>. QED BY <1>2, <5>1, ElementOfSeq
      <4>2. vec'[j] = collected[j + 1]
        BY <1>2, <1>3
      <4>. QED BY <4>1, <4>2 DEF NullPtr
    <3>. QED BY <3>2, <3>3
  <2>2. PairsOf(vec', cap') = [j \in 1..info |-> vec'[j - 1]]
    BY <1>1, <1>2, <1>4, <2>1, PairsUpToNull
  <2>3. Pairs' = PairsOf(vec', cap')
    BY DEF Pairs, PairsOf
  <2>4. [j \in 1..info |-> vec'[j - 1]] = collected
    BY <1>2, <1>3
  <2>. QED BY <1>1, <2>2, <2>3, <2>4
<1>6. TypeOK'
  BY <1>1, <1>3, <1>4 DEF IInv, TypeOK
<1>. QED BY <1>1, <1>3, <1>5, <1>6
         DEF IInv, Fresh, Filling, VectorWithinAllocation, VectorMatchesCalls

LEMMA IInvStep == IInv /\ [Next]_vars => IInv'
<1> SUFFICES ASSUME IInv, [Next]_vars PROVE IInv'
  OBVIOUS
<1>1. CASE CollectAlloc
  BY <1>1, CollectAllocStep
<1>2. CASE NameDupFails
  BY <1>2, LoopToTerm DEF NameDupFails
<1>3. CASE EntrySkipped
  BY <1>3, EntrySkippedStep
<1>4. CASE NullString
  <2>1. TypeOK'
    BY <1>4 DEF NullString, IInv, TypeOK
  <2>. QED BY <1>4, <2>1
           DEF NullString, IInv, Fresh, Filling, VectorWithinAllocation, VectorMatchesCalls
<1>5. CASE DataDupFails
  BY <1>5, DataDupFailsStep
<1>6. CASE Collected
  BY <1>6, CollectedStep
<1>7. CASE LoopEnd
  BY <1>7, LoopToTerm DEF LoopEnd
<1>8. CASE Terminate
  BY <1>8, TerminateStep
<1>9. CASE StringAlloc
  <2>1. pc' \in {"write", "done"}
    BY <1>9 DEF StringAlloc
  <2>. QED BY <1>9, <2>1, RenderFrame DEF StringAlloc
<1>10. CASE WriteLine
  BY <1>10, RenderFrame DEF WriteLine
<1>11. CASE WriteEnd
  BY <1>11, RenderFrame DEF WriteEnd
<1>12. CASE UNCHANGED vars
  BY <1>12 DEF vars, IInv, TypeOK, Fresh, Filling, VectorWithinAllocation,
               VectorMatchesCalls, Pairs, Cnt
<1>. QED BY <1>1, <1>2, <1>3, <1>4, <1>5, <1>6, <1>7, <1>8, <1>9, <1>10,
            <1>11, <1>12 DEF Next

(* collect_additional_debug_information never writes a pair past its       *)
(* malloc of cnt + 1 pairs, for every configured list, every datum and    *)
(* every pattern of failed strdup, malloc and JNI look-ups.               *)
THEOREM VectorWithinAllocationHolds == Spec => []VectorWithinAllocation
<1>1. IInv => VectorWithinAllocation
  BY DEF IInv
<1>. QED BY InitIInv, IInvStep, <1>1, PTL DEF Spec

(* Whenever the vector has been ended, the pairs before its first NULL     *)
(* label are exactly the entries whose method returned a String, in       *)
(* configuration order, whichever entries were skipped or failed.          *)
THEOREM VectorMatchesCallsHolds == Spec => []VectorMatchesCalls
<1>1. IInv => VectorMatchesCalls
  BY DEF IInv
<1>. QED BY InitIInv, IInvStep, <1>1, PTL DEF Spec
=============================================================================
