------------------------- MODULE ReasonFormatter_proofs -------------------------
(***************************************************************************)
(* Proof that format_exception_reason_message returns the message of spec *)
(* 4.4 for every buffer size and every class, exception and method name:  *)
(* each pass of its loop renders the next of the spec's candidates, and   *)
(* it returns at the first one that fits.                                  *)
(***************************************************************************)
EXTENDS ReasonFormatter, SequenceTheorems, WellFoundedInduction, TLAPS

(* The candidates of the call being formatted, and the first k not fitting. *)
Cands == Candidates(caught, exc0, cls0, method)
NoneFits(k) == \A i \in 1..k : ~(Len(Cands[i]) < MaxLen)

(* The pass of the loop: the names it renders are those of candidate 1,   *)
(* 2, 3 or 4, and every earlier candidate did not fit.                    *)
Stage1 == excName = exc0 /\ className = cls0
Stage2 == excName = exc0 /\ className = StripNameSpace(cls0) /\ NoneFits(1)
Stage3 == /\ exc0 # Null /\ excName = StripNameSpace(exc0)
          /\ className = StripNameSpace(cls0) /\ NoneFits(2)
Stage4 == /\ exc0 # Null /\ excName = StripNameSpace(exc0)
          /\ className = <<>> /\ NoneFits(3)

(* The inductive strengthening of MessageAsSpecified.                     *)
FormatInv ==
    /\ exc0 \in Seq(Char) \cup {Null} /\ cls0 \in Seq(Char)
    /\ excName \in Seq(Char) \cup {Null} /\ className \in Seq(Char)
    /\ pc \in {"alloc", "format", "done", "crash"}
    /\ pc = "alloc" => Stage1 /\ message = Null
    /\ pc = "format" => (Stage1 \/ Stage2 \/ Stage3 \/ Stage4) /\ message = Null
    /\ MessageAsSpecified
-----------------------------------------------------------------------------
(* A non-empty set of indices of a sequence has a greatest element, which  *)
(* is what FiniteSetsExt's Max chooses.                                   *)
LEMMA MaxOfIndices ==
    ASSUME NEW n \in Nat, NEW I \in SUBSET (1..n), I # {}
    PROVE  Max(I) \in I /\ \A j \in I : j <= Max(I)
<1> DEFINE T == {n - i : i \in I}
           R == OpToRel(<, Nat)
<1>1. \A i \in I : n - i \in Nat
  OBVIOUS
<1>2. T \subseteq Nat /\ T # {}
  BY <1>1
<1>3. IsWellFoundedOn(R, Nat)
  BY NatLessThanWellFounded, Zenon
<1>4. \E x \in T : \A y \in T : ~(<<y, x>> \in R)
  BY <1>2, <1>3, WFMin, Zenon
<1>5. PICK x \in T : \A y \in T : ~(y < x)
  BY <1>2, <1>4, Zenon DEF OpToRel
<1>6. PICK m \in I : x = n - m
  OBVIOUS
<1>7. \A j \in I : m >= j
  <2> SUFFICES ASSUME NEW j \in I PROVE m >= j
    OBVIOUS
  <2>1. n - j \in T /\ ~(n - j < x)
    BY <1>5
  <2> QED
    BY <2>1, <1>6
<1> QED
  BY <1>7 DEF Max

(* The index strrchr(s, '.') returns, 0 for NULL.                          *)
LastDotIndex(s) == SelectLastInSeq(s, IsDot)

(* The community operators the loop uses, spelt out: the index of the      *)
(* last '.', the test for one and the suffix after it.                    *)
LEMMA DotOps ==
    ASSUME NEW s
    PROVE  /\ LastDotIndex(s) = IF {i \in 1..Len(s) : s[i] = "."} # {}
                                THEN Max({i \in 1..Len(s) : s[i] = "."}) ELSE 0
           /\ HasDot(s) <=> LastDotIndex(s) # 0
           /\ AfterLastDot(s) = SubSeq(s, LastDotIndex(s) + 1, Len(s))
BY Zenon DEF LastDotIndex, SelectLastInSeq, IsDot, HasDot, AfterLastDot

(* strrchr(s, '.') finds the last '.' of a name that has one, and is NULL *)
(* exactly when the name has none.                                         *)
LEMMA LastDot ==
    ASSUME NEW s \in Seq(Char)
    PROVE  /\ HasDot(s) <=> ~DotFree(s)
           /\ HasDot(s) =>
                /\ LastDotIndex(s) \in 1..Len(s) /\ s[LastDotIndex(s)] = "."
                /\ \A j \in LastDotIndex(s) + 1..Len(s) : s[j] # "."
<1> DEFINE I == {i \in 1..Len(s) : s[i] = "."}
<1>1. Len(s) \in Nat /\ I \in SUBSET (1..Len(s))
  OBVIOUS
<1>2. CASE I = {}
  <2>1. ~HasDot(s)
    BY <1>2, DotOps
  <2> QED
    BY <1>2, <2>1 DEF DotFree
<1>3. CASE I # {}
  <2>1. Max(I) \in I /\ \A j \in I : j <= Max(I)
    BY <1>1, <1>3, MaxOfIndices
  <2>2. LastDotIndex(s) = Max(I) /\ HasDot(s)
    BY <1>3, <2>1, DotOps
  <2>3. ~DotFree(s)
    BY <2>1 DEF DotFree
  <2>4. ASSUME NEW j \in Max(I) + 1..Len(s), s[j] = "." PROVE FALSE
    <3>1. j \in I
      BY <2>1, <2>4
    <3> QED
      BY <3>1, <2>1
  <2> QED
    BY <2>1, <2>2, <2>3, <2>4
<1> QED
  BY <1>2, <1>3

(* ptr + 1 past the last '.' is the suffix after it, which has no '.'.     *)
LEMMA AfterLastDotProps ==
    ASSUME NEW s \in Seq(Char), HasDot(s)
    PROVE  /\ AfterLastDot(s) = SubSeq(s, LastDotIndex(s) + 1, Len(s))
           /\ AfterLastDot(s) \in Seq(Char)
           /\ Len(AfterLastDot(s)) = Len(s) - LastDotIndex(s)
           /\ DotFree(AfterLastDot(s))
<1> DEFINE i == LastDotIndex(s)
<1>1. i \in 1..Len(s) /\ \A j \in i + 1..Len(s) : s[j] # "."
  BY LastDot
<1>2. /\ SubSeq(s, i + 1, Len(s)) \in Seq(Char)
      /\ Len(SubSeq(s, i + 1, Len(s))) = Len(s) - i
      /\ \A k \in 1..Len(s) - i : SubSeq(s, i + 1, Len(s))[k] = s[i + k]
  BY <1>1, SubSeqProperties
<1>3. AfterLastDot(s) = SubSeq(s, i + 1, Len(s))
  BY DotOps
<1>4. DotFree(SubSeq(s, i + 1, Len(s)))
  <2> SUFFICES ASSUME NEW k \in 1..Len(s) - i PROVE SubSeq(s, i + 1, Len(s))[k] # "."
    BY <1>2 DEF DotFree
  <2>1. i + k \in i + 1..Len(s)
    BY <1>1
  <2> QED
    BY <1>1, <1>2, <2>1
<1> QED
  BY <1>2, <1>3, <1>4

(* A suffix of a name, the name itself included, starts at some index.    *)
LEMMA SuffixStart ==
    ASSUME NEW s \in Seq(Char), NEW y \in Suffixes(s) \cup {s}
    PROVE  \E l \in 1..Len(s) + 1 : y = SubSeq(s, l, Len(s))
<1>1. CASE y = s
  BY <1>1, SubSeqFull
<1>2. CASE y = << >>
  <2>1. SubSeq(s, Len(s) + 1, Len(s)) = << >>
    BY SubSeqEmpty
  <2> QED
    BY <1>2, <2>1
<1>3. CASE y # s /\ y # << >>
  BY <1>3 DEF Suffixes
<1> QED
  BY <1>1, <1>2, <1>3

(* The suffix from index l: a name of Len(s) - l + 1 characters.          *)
LEMMA SuffixProps ==
    ASSUME NEW s \in Seq(Char), NEW l \in 1..Len(s) + 1
    PROVE  /\ SubSeq(s, l, Len(s)) \in Seq(Char)
           /\ Len(SubSeq(s, l, Len(s))) = Len(s) - l + 1
           /\ \A k \in 1..Len(s) - l + 1 : SubSeq(s, l, Len(s))[k] = s[l + k - 1]
           /\ SubSeq(s, l, Len(s)) \in Suffixes(s) \cup {s}
<1>1. /\ SubSeq(s, l, Len(s)) \in Seq(Char)
      /\ Len(SubSeq(s, l, Len(s))) = Len(s) - l + 1
      /\ \A k \in 1..Len(s) - l + 1 : SubSeq(s, l, Len(s))[k] = s[l + k - 1]
  BY SubSeqProperties
<1>2. CASE l = Len(s) + 1
  BY <1>2, SubSeqEmpty DEF Suffixes
<1>3. CASE l # Len(s) + 1
  BY <1>3 DEF Suffixes
<1> QED
  BY <1>1, <1>2, <1>3

(* Spec 4.4's name without its name space is what the loop computes: the  *)
(* suffix after the last '.', or the whole name when it has none.          *)
LEMMA StripIsAfterLastDot ==
    ASSUME NEW s \in Seq(Char)
    PROVE  StripNameSpace(s) = IF HasDot(s) THEN AfterLastDot(s) ELSE s
<1> DEFINE Sfx == Suffixes(s) \cup {s}
           P(x) == DotFree(x) /\ \A y \in Sfx : DotFree(y) => Len(y) <= Len(x)
           x0 == IF HasDot(s) THEN AfterLastDot(s) ELSE s
<1>0. s # Null
  BY FormatterAssumption
<1>1. PICK l0 \in 1..Len(s) + 1 : x0 = SubSeq(s, l0, Len(s)) /\ DotFree(x0)
  <2>1. CASE HasDot(s)
    <3>1. LastDotIndex(s) + 1 \in 1..Len(s) + 1
      BY <2>1, LastDot
    <3>2. x0 = SubSeq(s, LastDotIndex(s) + 1, Len(s)) /\ DotFree(x0)
      BY <2>1, AfterLastDotProps
    <3> QED
      BY <3>1, <3>2
  <2>2. CASE ~HasDot(s)
    BY <2>2, LastDot, SubSeqFull
  <2> QED
    BY <2>1, <2>2
<1>2. ASSUME NEW y \in Sfx, DotFree(y) PROVE Len(y) <= Len(x0)
  <2>1. PICK l \in 1..Len(s) + 1 : y = SubSeq(s, l, Len(s))
    BY SuffixStart
  <2>2. Len(y) = Len(s) - l + 1 /\ \A k \in 1..Len(s) - l + 1 : y[k] = s[l + k - 1]
    BY <2>1, SuffixProps
  <2>3. CASE HasDot(s)
    <3> DEFINE i == LastDotIndex(s)
    <3>1. i \in 1..Len(s) /\ s[i] = "." /\ Len(x0) = Len(s) - i
      BY <2>3, LastDot, AfterLastDotProps
    <3>2. l > i
      <4> SUFFICES ASSUME l <= i PROVE FALSE
        BY <3>1
      <4>1. i - l + 1 \in 1..Len(s) - l + 1 /\ l + (i - l + 1) - 1 = i
        BY <3>1
      <4>2. y[i - l + 1] = s[i]
        BY <2>2, <4>1
      <4>3. y[i - l + 1] # "."
        BY <1>2, <2>2, <4>1 DEF DotFree
      <4> QED
        BY <4>2, <4>3, <3>1
    <3>3. Len(s) \in Nat
      OBVIOUS
    <3> QED
      BY <2>2, <3>1, <3>2, <3>3
  <2>4. CASE ~HasDot(s)
    BY <2>2, <2>4
  <2> QED
    BY <2>3, <2>4
<1>3. x0 \in Sfx /\ P(x0)
  BY <1>1, <1>2, SuffixProps
<1>4. StripNameSpace(s) = CHOOSE x \in Sfx : P(x)
  BY <1>0 DEF StripNameSpace
<1>5. StripNameSpace(s) \in Sfx /\ P(StripNameSpace(s))
  BY <1>3, <1>4
<1>6. Len(StripNameSpace(s)) = Len(x0)
  <2>1. Len(StripNameSpace(s)) <= Len(x0)
    BY <1>2, <1>5
  <2>2. Len(x0) <= Len(StripNameSpace(s))
    BY <1>3, <1>5
  <2>3. Len(x0) \in Nat /\ Len(StripNameSpace(s)) \in Nat
    BY <1>1, <1>5, SuffixStart, SuffixProps
  <2> QED
    BY <2>1, <2>2, <2>3
<1>7. PICK l \in 1..Len(s) + 1 : StripNameSpace(s) = SubSeq(s, l, Len(s))
  BY <1>5, SuffixStart
<1> QED
  BY <1>1, <1>6, <1>7, SuffixProps
(* ReplaceAll of a character by a character keeps a string a string.     *)
LEMMA ReplaceAllType ==
    ASSUME NEW b \in Seq(Char), NEW x \in Char, NEW y \in Char
    PROVE  ReplaceAll(b, x, y) \in Seq(Char)
<1>1. Len(b) \in Nat /\ b \in [1..Len(b) -> Char]
  BY LenProperties
<1>2. [i \in 1..Len(b) |-> IF b[i] = x THEN y ELSE b[i]] \in [1..Len(b) -> Char]
  BY <1>1
<1> QED
  BY <1>1, <1>2, SeqDef DEF ReplaceAll

(* Front of a non-empty string is a string.                               *)
LEMMA FrontType ==
    ASSUME NEW b \in Seq(Char), b # << >>
    PROVE  Front(b) \in Seq(Char)
<1>1. Len(b) \in Nat /\ Len(b) # 0
  BY EmptySeq, LenProperties
<1> QED
  BY <1>1, SubSeqProperties DEF Front

(* format_class_name turns a signature into a name: a string, never NULL. *)
LEMMA FormatClassNameType ==
    ASSUME NEW sig \in Seq(Char), NEW r \in Char
    PROVE  FormatClassName(sig, r) \in Seq(Char)
<1> DEFINE body == IF sig # << >> /\ Head(sig) = "L" THEN Tail(sig) ELSE sig
           dotted == ReplaceAll(body, "/", ".")
<1>1. body \in Seq(Char)
  <2>1. sig # << >> => Tail(sig) \in Seq(Char)
    BY HeadTailProperties
  <2> QED
    BY <2>1
<1>2. dotted \in Seq(Char)
  BY <1>1, ReplaceAllType DEF Char
<1>3. dotted # << >> => Front(dotted) \in Seq(Char)
  BY <1>2, FrontType
<1>4. dotted # << >> => Front(dotted) \o << r >> \in Seq(Char)
  BY <1>3, ConcatProperties
<1>5. FormatClassName(sig, r) =
        IF dotted # << >> /\ Last(sig) = ";"
        THEN IF r = NUL THEN Front(dotted) ELSE Front(dotted) \o << r >>
        ELSE dotted
  BY DEF FormatClassName
<1> HIDE DEF body, dotted
<1> QED
  BY <1>2, <1>3, <1>4, <1>5

(* The names the two callers pass are strings; the exception's may be NULL.*)
LEMMA CallerNames ==
    ASSUME NEW sig \in ClassSigs
    PROVE  /\ ThrowClassName(sig) \in Seq(Char)
           /\ CatchClassName(sig) \in Seq(Char)
           /\ TypeNames \subseteq Seq(Char) \cup {Null}
<1>1. sig \in Seq(Char)
  BY FormatterAssumption
<1>2. FormatClassName(sig, ".") \in Seq(Char) /\ FormatClassName(sig, NUL) \in Seq(Char)
  BY <1>1, FormatClassNameType DEF NUL, Char
<1>3. ThrowClassName(sig) \in Seq(Char)
  BY <1>2, FrontType DEF ThrowClassName
<1>4. \A e \in ExcSigs : FormatClassName(e, NUL) \in Seq(Char)
  BY FormatterAssumption, FormatClassNameType DEF NUL, Char
<1> QED
  BY <1>2, <1>3, <1>4 DEF CatchClassName, TypeNames
(* What the loop relies on of a stripped name: it is a name with no '.', *)
(* and a name with no '.' is its own stripped name.                       *)
LEMMA StripFacts ==
    ASSUME NEW s \in Seq(Char)
    PROVE  /\ StripNameSpace(s) \in Seq(Char)
           /\ ~HasDot(StripNameSpace(s))
           /\ HasDot(s) => StripNameSpace(s) = AfterLastDot(s)
           /\ ~HasDot(s) => StripNameSpace(s) = s
<1>1. HasDot(s) => AfterLastDot(s) \in Seq(Char) /\ DotFree(AfterLastDot(s))
  BY AfterLastDotProps
<1>2. ~HasDot(s) => DotFree(s)
  BY LastDot
<1>3. StripNameSpace(s) \in Seq(Char) /\ DotFree(StripNameSpace(s))
  BY <1>1, <1>2, StripIsAfterLastDot
<1>4. ~HasDot(StripNameSpace(s))
  BY <1>3, LastDot
<1> QED
  BY <1>3, <1>4, StripIsAfterLastDot

(* The empty class name has no name space.                                *)
LEMMA EmptyHasNoDot == ~HasDot(<< >>)
<1>1. << >> \in Seq(Char) /\ DotFree(<< >>)
  BY DEF DotFree
<1> QED
  BY <1>1, LastDot

(* Spec 4.4's choice: when candidate k is the first that fits (or k = 4   *)
(* and none of the first three does), the reference message is the k-th  *)
(* candidate as snprintf stores it.                                       *)
LEMMA BestCandidate ==
    ASSUME NEW c, NEW ex, NEW cl, NEW m, NEW k \in 1..4,
           \A i \in 1..k - 1 : ~(Len(Candidates(c, ex, cl, m)[i]) < MaxLen),
           k <= 3 => Len(Candidates(c, ex, cl, m)[k]) < MaxLen
    PROVE  ReferenceMessage(c, ex, cl, m) = Stored(Candidates(c, ex, cl, m)[k])
<1> DEFINE C == Candidates(c, ex, cl, m)
           fit == {i \in 1..3 : Len(C[i]) < MaxLen}
           best == IF fit = {} THEN 4 ELSE CHOOSE i \in fit : \A j \in fit : i <= j
<1>1. ReferenceMessage(c, ex, cl, m) = Stored(C[best])
  BY DEF ReferenceMessage
<1>2. CASE k = 4
  <2>1. fit = {}
    BY <1>2
  <2> QED
    BY <1>1, <1>2, <2>1
<1>3. CASE k <= 3
  <2>1. k \in fit /\ \A j \in fit : k <= j
    BY <1>3
  <2>2. \A i \in fit : (\A j \in fit : i <= j) => i = k
    BY <2>1
  <2>3. (CHOOSE i \in fit : \A j \in fit : i <= j) = k
    BY <2>1, <2>2, Zenon
  <2> QED
    BY <1>1, <2>1, <2>3
<1> QED
  BY <1>2, <1>3
-----------------------------------------------------------------------------
(* The message the pass being run renders.                                *)
Cur == Render(caught, excName, className, method)

(* The arguments of the call are never written: the candidates stay.      *)
LEMMA CandsFrame ==
    ASSUME UNCHANGED <<caught, method, exc0, cls0>>
    PROVE  /\ Cands' = Cands
           /\ \A k \in 1..3 : NoneFits(k)' = NoneFits(k)
           /\ ReferenceMessage(caught, exc0, cls0, method)' =
                  ReferenceMessage(caught, exc0, cls0, method)
BY DEF Cands, NoneFits

(* What a state of FormatInv with pc = "format" knows: which candidate    *)
(* the pass renders, and the names and their stripped forms are strings. *)
LEMMA FormatFacts ==
    ASSUME FormatInv
    PROVE  /\ Stage1 => Cur = Cands[1]
           /\ Stage2 => Cur = Cands[2]
           /\ Stage3 => Cur = Cands[3]
           /\ Stage4 => Cur = Cands[4]
           /\ StripNameSpace(cls0) \in Seq(Char) /\ ~HasDot(StripNameSpace(cls0))
           /\ ~HasDot(cls0) => StripNameSpace(cls0) = cls0
           /\ HasDot(cls0) => StripNameSpace(cls0) = AfterLastDot(cls0)
           /\ exc0 # Null =>
                /\ StripNameSpace(exc0) \in Seq(Char)
                /\ ~HasDot(StripNameSpace(exc0))
                /\ ~HasDot(exc0) => StripNameSpace(exc0) = exc0
                /\ HasDot(exc0) => StripNameSpace(exc0) = AfterLastDot(exc0)
<1>1. cls0 \in Seq(Char) /\ (exc0 # Null => exc0 \in Seq(Char))
  BY DEF FormatInv
<1>2. /\ Stage1 => Cur = Cands[1]
      /\ Stage2 => Cur = Cands[2]
      /\ Stage3 => Cur = Cands[3]
      /\ Stage4 => Cur = Cands[4]
  BY DEF Stage1, Stage2, Stage3, Stage4, Cur, Cands, Candidates
<1> QED
  BY <1>1, <1>2, StripFacts

(* The initial states: a call with the callers' names, before calloc.    *)
LEMMA InitFormatInv == Init => FormatInv
<1> SUFFICES ASSUME Init PROVE FormatInv
  OBVIOUS
<1>1. PICK cs \in ClassSigs :
         /\ excName \in TypeNames
         /\ className \in {ThrowClassName(cs), CatchClassName(cs)}
  BY DEF Init
<1>2. excName \in Seq(Char) \cup {Null} /\ className \in Seq(Char)
  BY <1>1, CallerNames
<1> QED
  BY <1>2 DEF Init, FormatInv, Stage1, MessageAsSpecified

(* calloc: the loop starts at the full message, or the call returns NULL. *)
LEMMA AllocStep ==
    ASSUME FormatInv, Alloc
    PROVE  FormatInv'
BY DEF FormatInv, Alloc, Stage1, MessageAsSpecified

(* The message fits: the pass that renders candidate k returns it, and    *)
(* the earlier candidates did not fit, so it is spec 4.4's choice.        *)
LEMMA ReturnStep ==
    ASSUME FormatInv, Return
    PROVE  FormatInv'
<1>1. Cands' = Cands /\ ReferenceMessage(caught, exc0, cls0, method)' =
                          ReferenceMessage(caught, exc0, cls0, method)
  BY CandsFrame DEF Return
<1>2. Len(Cur) < MaxLen /\ message' = Stored(Cur)
  BY DEF Return, Cur, Fits
<1>3. pc = "format"
  BY DEF Return
<1>4. message' = ReferenceMessage(caught, exc0, cls0, method)
  <2>1. CASE Stage1
    BY <1>2, <2>1, FormatFacts, BestCandidate DEF Cands
  <2>2. CASE Stage2
    BY <1>2, <2>2, FormatFacts, BestCandidate DEF Cands, Stage2, NoneFits
  <2>3. CASE Stage3
    BY <1>2, <2>3, FormatFacts, BestCandidate DEF Cands, Stage3, NoneFits
  <2>4. CASE Stage4
    BY <1>2, <2>4, FormatFacts, BestCandidate DEF Cands, Stage4, NoneFits
  <2> QED
    BY <1>3, <2>1, <2>2, <2>3, <2>4 DEF FormatInv
<1> QED
  BY <1>1, <1>4 DEF FormatInv, Return, MessageAsSpecified
(* The class's name space is dropped only at the full message, and the   *)
(* next pass renders candidate 2.                                         *)
LEMMA DropClassNameSpaceStep ==
    ASSUME FormatInv, DropClassNameSpace
    PROVE  FormatInv'
<1>1. Cands' = Cands /\ NoneFits(1)' = NoneFits(1)
  BY CandsFrame DEF DropClassNameSpace
<1>2. ~(Len(Cur) < MaxLen) /\ HasDot(className) /\ pc = "format"
  BY DEF DropClassNameSpace, Cur, Fits
<1>3. Stage1
  BY <1>2, FormatFacts, EmptyHasNoDot DEF FormatInv, Stage2, Stage3, Stage4
<1>4. className' = StripNameSpace(cls0) /\ NoneFits(1)
  BY <1>2, <1>3, FormatFacts DEF DropClassNameSpace, Stage1, NoneFits
<1>5. Stage2'
  BY <1>1, <1>3, <1>4 DEF DropClassNameSpace, Stage1, Stage2
<1> QED
  BY <1>4, <1>5, FormatFacts DEF FormatInv, DropClassNameSpace, MessageAsSpecified

(* strrchr of a NULL exception name: the call never returns a message.    *)
LEMMA NullDerefStep ==
    ASSUME FormatInv, NullDeref
    PROVE  FormatInv'
BY DEF FormatInv, NullDeref, MessageAsSpecified

(* The exception's name space is dropped at candidate 1 or 2 (which are   *)
(* the same message when the class has no name space), and the next pass *)
(* renders candidate 3.                                                   *)
LEMMA DropExceptionNameSpaceStep ==
    ASSUME FormatInv, DropExceptionNameSpace
    PROVE  FormatInv'
<1>1. Cands' = Cands /\ NoneFits(2)' = NoneFits(2)
  BY CandsFrame DEF DropExceptionNameSpace
<1>2. /\ ~(Len(Cur) < MaxLen) /\ ~HasDot(className) /\ pc = "format"
      /\ excName # Null /\ HasDot(excName)
  BY DEF DropExceptionNameSpace, Cur, Fits
<1>3. Stage1 \/ Stage2
  BY <1>2, FormatFacts DEF FormatInv, Stage3, Stage4
<1>4. exc0 # Null /\ excName = exc0 /\ className = StripNameSpace(cls0)
  BY <1>2, <1>3, FormatFacts DEF Stage1, Stage2
<1>5. NoneFits(2)
  <2>1. CASE Stage1
    <3>1. Cands[2] = Cands[1] /\ Cur = Cands[1]
      BY <1>4, <2>1, FormatFacts DEF Cands, Candidates, Stage1
    <3> QED
      BY <1>2, <3>1 DEF NoneFits
  <2>2. CASE Stage2
    BY <1>2, <2>2, FormatFacts DEF Stage2, NoneFits
  <2> QED
    BY <1>3, <2>1, <2>2
<1>6. excName' = StripNameSpace(exc0)
  BY <1>2, <1>4, FormatFacts DEF DropExceptionNameSpace
<1>7. Stage3'
  BY <1>1, <1>4, <1>5, <1>6 DEF DropExceptionNameSpace, Stage3
<1> QED
  BY <1>4, <1>6, <1>7, FormatFacts DEF FormatInv, DropExceptionNameSpace, MessageAsSpecified
(* The class is dropped once neither name has a name space: candidates 1 *)
(* to 3 are then the message just rendered, and the next pass renders     *)
(* candidate 4.                                                           *)
LEMMA DropClassNameStep ==
    ASSUME FormatInv, DropClassName
    PROVE  FormatInv'
<1>1. Cands' = Cands /\ NoneFits(3)' = NoneFits(3)
  BY CandsFrame DEF DropClassName
<1>2. /\ ~(Len(Cur) < MaxLen) /\ ~HasDot(className) /\ pc = "format"
      /\ excName # Null /\ ~HasDot(excName) /\ className # << >>
  BY DEF DropClassName, Cur, Fits
<1>3. Stage1 \/ Stage2 \/ Stage3
  BY <1>2 DEF FormatInv, Stage4
<1>4. exc0 # Null /\ excName = StripNameSpace(exc0)
  BY <1>2, <1>3, FormatFacts DEF Stage1, Stage2, Stage3
<1>5. NoneFits(3)
  <2>1. CASE Stage1
    <3>1. Cands[2] = Cands[1] /\ Cands[3] = Cands[1] /\ Cur = Cands[1]
      BY <1>2, <1>4, <2>1, FormatFacts DEF Cands, Candidates, Stage1
    <3> QED
      BY <1>2, <3>1 DEF NoneFits
  <2>2. CASE Stage2
    <3>1. Cands[3] = Cands[2] /\ Cur = Cands[2]
      BY <1>4, <2>2, FormatFacts DEF Cands, Candidates, Stage2
    <3> QED
      BY <1>2, <2>2, <3>1 DEF Stage2, NoneFits
  <2>3. CASE Stage3
    BY <1>2, <2>3, FormatFacts DEF Stage3, NoneFits
  <2> QED
    BY <1>3, <2>1, <2>2, <2>3
<1>6. Stage4'
  BY <1>1, <1>4, <1>5 DEF DropClassName, Stage4
<1> QED
  BY <1>4, <1>6, FormatFacts DEF FormatInv, DropClassName, MessageAsSpecified

(* Nothing is left to drop: the message rendered is candidate 4 and none  *)
(* of the first three fits, so the truncated message is spec 4.4's.      *)
LEMMA ReturnTruncatedStep ==
    ASSUME FormatInv, ReturnTruncated
    PROVE  FormatInv'
<1>1. ReferenceMessage(caught, exc0, cls0, method)' =
          ReferenceMessage(caught, exc0, cls0, method)
  BY CandsFrame DEF ReturnTruncated
<1>2. /\ ~(Len(Cur) < MaxLen) /\ pc = "format" /\ message' = Stored(Cur)
      /\ excName # Null /\ ~HasDot(excName) /\ className = << >>
  BY DEF ReturnTruncated, Cur, Fits
<1>3. NoneFits(3) /\ Cur = Cands[4]
  <2>1. CASE Stage1
    <3>1. /\ Cands[2] = Cands[1] /\ Cands[3] = Cands[1] /\ Cands[4] = Cands[1]
          /\ Cur = Cands[1]
      BY <1>2, <2>1, EmptyHasNoDot, FormatFacts DEF Cands, Candidates, Stage1
    <3> QED
      BY <1>2, <3>1 DEF NoneFits
  <2>2. CASE Stage2
    <3>1. /\ Cands[3] = Cands[2] /\ Cands[4] = Cands[2] /\ Cur = Cands[2]
      BY <1>2, <2>2, FormatFacts DEF Cands, Candidates, Stage2
    <3> QED
      BY <1>2, <2>2, <3>1 DEF Stage2, NoneFits
  <2>3. CASE Stage3
    <3>1. Cands[4] = Cands[3] /\ Cur = Cands[3]
      BY <1>2, <2>3, FormatFacts DEF Cands, Candidates, Stage3
    <3> QED
      BY <1>2, <2>3, <3>1 DEF Stage3, NoneFits
  <2>4. CASE Stage4
    BY <2>4, FormatFacts DEF Stage4
  <2> QED
    BY <1>2, <2>1, <2>2, <2>3, <2>4 DEF FormatInv
<1>4. message' = ReferenceMessage(caught, exc0, cls0, method)
  BY <1>2, <1>3, BestCandidate DEF Cands, NoneFits
<1> QED
  BY <1>1, <1>4 DEF FormatInv, ReturnTruncated, MessageAsSpecified
(* Every step of the formatter keeps FormatInv.                          *)
LEMMA FormatStep == FormatInv /\ [Next]_vars => FormatInv'
<1> SUFFICES ASSUME FormatInv, [Next]_vars PROVE FormatInv'
  OBVIOUS
<1>1. CASE Alloc
  BY <1>1, AllocStep
<1>2. CASE Return
  BY <1>2, ReturnStep
<1>3. CASE DropClassNameSpace
  BY <1>3, DropClassNameSpaceStep
<1>4. CASE NullDeref
  BY <1>4, NullDerefStep
<1>5. CASE DropExceptionNameSpace
  BY <1>5, DropExceptionNameSpaceStep
<1>6. CASE DropClassName
  BY <1>6, DropClassNameStep
<1>7. CASE ReturnTruncated
  BY <1>7, ReturnTruncatedStep
<1>8. CASE UNCHANGED vars
  BY <1>8 DEF vars, FormatInv, Stage1, Stage2, Stage3, Stage4, NoneFits, Cands,
              MessageAsSpecified
<1> QED
  BY <1>1, <1>2, <1>3, <1>4, <1>5, <1>6, <1>7, <1>8 DEF Next

(* format_exception_reason_message returns, whenever it returns a message,*)
(* the one spec 4.4's shortening order gives, for every buffer size and   *)
(* every class, exception and method name the callers pass.               *)
THEOREM MessageAsSpecifiedHolds == Spec => []MessageAsSpecified
<1>1. Init => FormatInv
  BY InitFormatInv
<1>2. FormatInv /\ [Next]_vars => FormatInv'
  BY FormatStep
<1>3. FormatInv => MessageAsSpecified
  BY DEF FormatInv
<1> QED
  BY <1>1, <1>2, <1>3, PTL DEF Spec
=============================================================================
