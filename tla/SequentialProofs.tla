--------------------------- MODULE SequentialProofs ---------------------------
(***************************************************************************)
(* Proofs about sequential code, for any number of scopes and spans: the   *)
(* stack of a scope holds its open spans, so that each scope implements    *)
(* CallTree.                                                               *)
(***************************************************************************)
EXTENDS StructuredProofs

(* The span that is closed is the innermost one.                           *)
Innermost(c, span) == \A s \in OwnSpans(c) : s.id <= span.id

LEMMA InnermostIsClosed ==
  ASSUME Structured, [SequentialNext]_vars,
         NEW c \in Contexts, NEW span \in Spans, NEW done \in Spans, Closed(c, span, done)
  PROVE  Innermost(c, span)
<1>t. /\ phase \in [Contexts -> Phases] /\ finishedSpans \in [Contexts -> Seq(Spans)]
      /\ held \in [Futures -> SUBSET Spans]
  BY StructuredTypes DEF Structured
<1>1. /\ phase[c] = "working" /\ span \in OwnSpans(c)
      /\ OwnSpans(c)' = OwnSpans(c) \ {span}
      /\ \/ phase'[c] = "taken"
         \/ phase'[c] = "working" /\ finishedSpans'[c] = Append(finishedSpans[c], done)
  BY <1>t DEF Closed, Report
<1>2. Append(finishedSpans[c], done) # finishedSpans[c]
  <2>1. finishedSpans[c] \in Seq(Spans)
    BY <1>t
  <2> QED
    BY <2>1, AppendProperties, LenProperties
<1>3. ~(phase'[c] = phase[c] /\ finishedSpans'[c] = finishedSpans[c])
  BY <1>1, <1>2
<1>4. ASSUME NEW b \in Contexts, AsyncEnter(b) \/ LeaveScope(b) PROVE FALSE
  <2>1. b # c => phase'[c] = phase[c] /\ finishedSpans'[c] = finishedSpans[c]
    BY <1>t, <1>4 DEF AsyncEnter, LeaveScope
  <2>2. phase'[c] # "exited" /\ phase[c] # "unentered"
    BY <1>1
  <2> QED
    BY <1>t, <1>3, <1>4, <2>1, <2>2 DEF AsyncEnter, LeaveScope
<1>5. ASSUME NEW f \in Futures, Create(f) PROVE FALSE
  BY <1>3, <1>5 DEF Create, TracingEntry, TracingLocal, TracingExit, CreateSpan
<1>6. ASSUME NEW f \in Futures, NEW s \in held[f], EndSpan(f, s) PROVE FALSE
  BY <1>3, <1>6 DEF EndSpan
<1>7. ASSUME NEW f \in Futures, NEW s \in held[f], FinishSpan(f, s), IsInnermost(f, s)
      PROVE  Innermost(c, span)
  <2>1. Home[f] = c
    BY <1>t, <1>3, <1>7, ContextManagerAssumption DEF FinishSpan, Report
  <2>2. \A g \in Futures : held'[g] = IF g = f THEN held[f] \ {s} ELSE held[g]
    BY <1>t, <1>7 DEF FinishSpan
  <2>3. span = s
    <3>1. PICK g \in Futures : span \in held[g]
      BY <1>1, OwnSpansAre
    <3>2. span \notin held'[g]
      BY <1>1, <3>1, OwnSpansAre
    <3> QED
      BY <2>2, <3>1, <3>2
  <2> QED
    BY <1>7, <2>1, <2>3 DEF IsInnermost, Innermost, OwnSpans
<1>8. CASE UNCHANGED vars
  BY <1>3, <1>8 DEF vars
<1> QED
  BY <1>4, <1>5, <1>6, <1>7, <1>8 DEF SequentialNext

-----------------------------------------------------------------------------
(* The stack.                                                              *)

(* What a stack is while its scope is traced.                              *)
AscendingStack(stack) ==
  \A i, j \in 1..Len(stack) : i < j => stack[i] < stack[j]

Nested(c) ==
  /\ phase[c] = "working" => Range(spanStack[c]) = Ids(OwnSpans(c))
  /\ phase[c] # "working" => spanStack[c] = <<>> /\ finishedSpans[c] = <<>>

AllNested == \A c \in Contexts : Nested(c)

(* The last of an ascending stack is the greatest, and Pop removes it.     *)
LEMMA TopIsGreatest ==
  ASSUME NEW stack \in Seq(Nat), AscendingStack(stack), stack # <<>>
  PROVE  /\ stack[Len(stack)] \in Range(stack)
         /\ \A i \in Range(stack) : i <= stack[Len(stack)]
         /\ Range(Pop(stack)) = Range(stack) \ {stack[Len(stack)]}
<1> DEFINE n == Len(stack)
<1>1. n \in Nat /\ n > 0 /\ DOMAIN stack = 1..n /\ \A i \in 1..n : stack[i] \in Nat
  BY EmptySeq, LenProperties, ElementOfSeq
<1>2. Range(stack) = {stack[i] : i \in 1..n}
  BY <1>1 DEF Range
<1>3. \A i \in 1..n : i < n => stack[i] < stack[n]
  BY <1>1 DEF AscendingStack
<1>4. /\ DOMAIN Pop(stack) = 1..(n - 1)
      /\ \A i \in 1..(n - 1) : Pop(stack)[i] = stack[i]
  BY <1>1, SubSeqProperties DEF Pop
<1>5. Range(Pop(stack)) = {stack[i] : i \in 1..(n - 1)}
  BY <1>4 DEF Range
<1> HIDE DEF n
<1>6. \A i \in Range(stack) : i <= stack[n]
  BY <1>1, <1>2, <1>3
<1>7. Range(Pop(stack)) = Range(stack) \ {stack[n]}
  <2>1. ASSUME NEW x \in Range(Pop(stack)) PROVE x \in Range(stack) /\ x # stack[n]
    BY <1>1, <1>2, <1>3, <1>5
  <2>2. ASSUME NEW x \in Range(stack), x # stack[n] PROVE x \in Range(Pop(stack))
    <3>1. PICK i \in 1..n : x = stack[i]
      BY <1>2, <2>2
    <3>2. i \in 1..(n - 1)
      BY <1>1, <2>2, <3>1
    <3> QED
      BY <1>5, <3>1, <3>2
  <2> QED
    BY <2>1, <2>2
<1> QED
  BY <1>1, <1>2, <1>6, <1>7 DEF n

LEMMA NextNested ==
  ASSUME Structured, ParentsAreOlder, AllNested, [SequentialNext]_vars
  PROVE  AllNested'
<1> SUFFICES ASSUME NEW c \in Contexts PROVE Nested(c)'
  BY DEF AllNested
<1>t. /\ phase \in [Contexts -> Phases] /\ spanStack[c] \in Seq(Nat)
      /\ OwnSpans(c) \subseteq Spans /\ nextSeq[c] \in Int
  BY StructuredTypes DEF Structured
<1>n. Nested(c)
  BY DEF AllNested
<1>e. Range(<<>>) = {} /\ Ids({}) = {}
  BY DEF Range, Ids
<1>1. ScopeStep(c)
  BY SequentialIsStructured, StructuredStep
<1>2. CASE Still(c) \/ Entered(c) \/ Left(c)
  BY <1>2, <1>n, <1>e DEF Still, Entered, Left, Nested
<1>3. ASSUME NEW new \in Spans, Opened(c, new) PROVE Nested(c)'
  <2>1. /\ phase[c] = "working" /\ phase'[c] = "working" /\ new.id = nextSeq[c] + 1
        /\ spanStack'[c] = Append(spanStack[c], nextSeq[c] + 1)
        /\ OwnSpans(c)' = OwnSpans(c) \cup {new}
    BY <1>3 DEF Opened
  <2>2. Range(spanStack'[c]) = Range(spanStack[c]) \cup {nextSeq[c] + 1}
    <3>1. nextSeq[c] + 1 \in Nat
      BY <2>1 DEF Spans
    <3> QED
      BY <1>t, <2>1, <3>1, RangeAppend
  <2>3. Ids(OwnSpans(c)') = Ids(OwnSpans(c)) \cup {nextSeq[c] + 1}
    BY <2>1 DEF Ids
  <2> QED
    BY <1>n, <2>1, <2>2, <2>3 DEF Nested
<1>4. ASSUME NEW span \in Spans, NEW other \in Spans, Replaced(c, span, other)
      PROVE  Nested(c)'
  <2>1. /\ phase[c] = "working" /\ phase'[c] = "working" /\ spanStack'[c] = spanStack[c]
        /\ span \in OwnSpans(c) /\ other.id = span.id
        /\ OwnSpans(c)' = (OwnSpans(c) \ {span}) \cup {other}
    BY <1>4 DEF Replaced, SameIdentity
  <2>2. Ids(OwnSpans(c)') = Ids(OwnSpans(c))
    BY <2>1 DEF Ids
  <2> QED
    BY <1>n, <2>1, <2>2 DEF Nested
<1>5. ASSUME NEW span \in Spans, NEW done \in Spans, Closed(c, span, done)
      PROVE  Nested(c)'
  <2>1. CASE span.id = 0
    <3>1. /\ phase'[c] = "taken" /\ spanStack'[c] = <<>> /\ finishedSpans'[c] = <<>>
      <4>1. /\ spanStack \in [Contexts -> Seq(Nat)]
            /\ finishedSpans \in [Contexts -> Seq(Spans)]
        BY StructuredTypes DEF Structured
      <4> QED
        BY <1>5, <1>t, <2>1, <4>1 DEF Closed, Report
    <3> QED
      BY <3>1 DEF Nested
  <2>2. CASE span.id # 0
    <3>1. /\ phase[c] = "working" /\ phase'[c] = "working" /\ span \in OwnSpans(c)
          /\ spanStack'[c] = Pop(spanStack[c]) /\ OwnSpans(c)' = OwnSpans(c) \ {span}
      BY <1>5, <2>2 DEF Closed
    <3>2. Range(spanStack[c]) = Ids(OwnSpans(c)) /\ span.id \in Range(spanStack[c])
      BY <1>n, <3>1 DEF Nested, Ids
    <3>3. AscendingStack(spanStack[c]) /\ spanStack[c] # <<>>
      BY <1>e, <3>2 DEF ParentsAreOlder, AscendingStack
    <3> DEFINE top == spanStack[c][Len(spanStack[c])]
    <3>4. /\ top \in Range(spanStack[c]) /\ \A i \in Range(spanStack[c]) : i <= top
          /\ Range(Pop(spanStack[c])) = Range(spanStack[c]) \ {top}
      BY <1>t, <3>3, TopIsGreatest
    <3> HIDE DEF top
    <3>5. top = span.id
      <4>1. PICK s \in OwnSpans(c) : top = s.id
        BY <3>2, <3>4 DEF Ids
      <4>2. top <= span.id
        BY <1>5, <4>1, InnermostIsClosed DEF Innermost
      <4>3. span.id <= top
        BY <3>2, <3>4
      <4> QED
        BY <1>t, <4>1, <4>2, <4>3 DEF Spans
    <3>6. Ids(OwnSpans(c)') = Ids(OwnSpans(c)) \ {span.id}
      <4>1. \A s \in OwnSpans(c) : s.id = span.id => s = span
        BY <3>1 DEF Structured, Unique, OwnSpans, HeldSpans
      <4> QED
        BY <3>1, <4>1 DEF Ids
    <3> QED
      BY <3>1, <3>2, <3>4, <3>5, <3>6 DEF Nested
  <2> QED
    BY <2>1, <2>2
<1> QED
  BY <1>1, <1>2, <1>3, <1>4, <1>5 DEF ScopeStep

LEMMA InitNested == Init => AllNested
<1> SUFFICES ASSUME Init, NEW c \in Contexts PROVE Nested(c)
  BY DEF AllNested
<1> QED
  BY DEF Init, Nested

(* All that is known of sequential code.                                   *)
Sequential == Structured /\ ParentsAreOlder /\ ReportedOnce /\ AllNested

LEMMA AlwaysSequential == SequentialSpec => []Sequential
<1>1. Init => Structured /\ AllNested
  BY InitStructured, InitNested
<1>2. Structured /\ [SequentialNext]_vars => Structured' /\ [Next]_vars
  BY SequentialIsStructured, NextStructured, StructuredIsCode
<1>3. Structured /\ ParentsAreOlder /\ AllNested /\ [SequentialNext]_vars => AllNested'
  BY NextNested
<1>4. SequentialSpec => Spec /\ []Structured
  BY <1>1, <1>2, PTL DEF SequentialSpec, Spec
<1> QED
  BY <1>1, <1>3, <1>4, ParentLinksAreAcyclic, ContextReportedOnce, PTL DEF SequentialSpec, Sequential

(* Sequential code keeps what context_manager.rs:253 says of the stack:    *)
(* its top is an open span, see StackTopIsOpen.                            *)
THEOREM SequentialStackTopIsOpen == SequentialSpec => []StackTopIsOpen
<1>1. Sequential => StackTopIsOpen
  <2> SUFFICES ASSUME Sequential, NEW c \in Contexts, spanStack[c] # <<>>
               PROVE  ParentSpanId(c) \in Ids(OwnSpans(c))
    BY DEF StackTopIsOpen
  <2>1. Range(spanStack[c]) = Ids(OwnSpans(c))
    BY DEF Sequential, AllNested, Nested
  <2>2. spanStack[c] \in Seq(Nat) /\ AscendingStack(spanStack[c])
    BY StructuredTypes DEF Sequential, Structured, ParentsAreOlder, AscendingStack
  <2> QED
    BY <2>1, <2>2, TopIsGreatest DEF ParentSpanId
<1> QED
  BY <1>1, AlwaysSequential, PTL

-----------------------------------------------------------------------------
(* The call tree that handles and archives show.                           *)

Rank(ids, i) == Cardinality({k \in ids : k < i})

OfRank(ids, r) == {i \in ids : Rank(ids, i) = r}

LEMMA AscendingNth ==
  ASSUME NEW ids
  PROVE  Ascending(ids) = [n \in 1..Cardinality(ids) |-> CHOOSE i \in OfRank(ids, n - 1) : TRUE]
BY DEF Ascending, Nth, OfRank, Rank

(* A number greater than all comes last.                                   *)
LEMMA AscendingAdd ==
  ASSUME NEW ids \in SUBSET Int, IsFiniteSet(ids), NEW m \in Int, \A i \in ids : i < m
  PROVE  /\ Cardinality(ids) \in Nat
         /\ Cardinality(ids \cup {m}) = Cardinality(ids) + 1
         /\ \A n \in 1..Cardinality(ids) : Ascending(ids \cup {m})[n] = Ascending(ids)[n]
         /\ Ascending(ids \cup {m})[Cardinality(ids) + 1] = m
<1> DEFINE more == ids \cup {m}
           size == Cardinality(ids)
<1>1. size \in Nat /\ Cardinality(more) = size + 1
  <2>1. m \notin ids
    OBVIOUS
  <2>2. Cardinality(ids) \in Nat
    BY FS_CardinalityType
  <2>3. Cardinality(ids \cup {m}) = Cardinality(ids) + 1
    BY <2>1, FS_AddElement
  <2> QED
    BY <2>2, <2>3
<1>2. \A i \in ids : {k \in more : k < i} = {k \in ids : k < i}
  OBVIOUS
<1>3. {k \in more : k < m} = ids
  <2>1. ~ m < m
    OBVIOUS
  <2> QED
    BY <2>1
<1>4. \A i \in ids : Rank(ids, i) # size
  <2> SUFFICES ASSUME NEW i \in ids, Rank(ids, i) = size PROVE FALSE
    OBVIOUS
  <2>1. {k \in ids : k < i} \in SUBSET ids /\ i \notin {k \in ids : k < i}
    OBVIOUS
  <2>2. {k \in ids : k < i} = ids
    BY <2>1, FS_Subset DEF Rank
  <2> QED
    BY <2>1, <2>2
<1>5. (\A i \in ids : Rank(more, i) = Rank(ids, i)) /\ Rank(more, m) = size
  BY <1>2, <1>3 DEF Rank
<1> HIDE DEF size
<1>6. ASSUME NEW n \in 1..size PROVE OfRank(more, n - 1) = OfRank(ids, n - 1)
  <2>1. Rank(more, m) # n - 1
    BY <1>1, <1>5
  <2> QED
    BY <1>5, <2>1 DEF OfRank
<1>7. OfRank(more, size) = {m}
  BY <1>4, <1>5 DEF OfRank
<1>8. /\ Ascending(more) = [n \in 1..(size + 1) |-> CHOOSE i \in OfRank(more, n - 1) : TRUE]
      /\ Ascending(ids) = [n \in 1..size |-> CHOOSE i \in OfRank(ids, n - 1) : TRUE]
  BY <1>1, AscendingNth DEF size
<1> HIDE DEF more
<1>9. ASSUME NEW n \in 1..size PROVE Ascending(more)[n] = Ascending(ids)[n]
  <2>1. n \in 1..(size + 1)
    BY <1>1
  <2> QED
    BY <1>6, <1>8, <2>1
<1>10. Ascending(more)[size + 1] = m
  <2>1. size + 1 \in 1..(size + 1) /\ (size + 1) - 1 = size
    BY <1>1
  <2>2. Ascending(more)[size + 1] = CHOOSE i \in OfRank(more, size) : TRUE
    BY <1>8, <2>1
  <2> QED
    BY <1>7, <2>2
<1> QED
  BY <1>1, <1>9, <1>10 DEF more, size

(* A sequence and the one that is longer by one element.                   *)
IsList(seq, size) == DOMAIN seq = 1..size /\ seq = [n \in 1..size |-> seq[n]]

LEMMA OneLonger ==
  ASSUME NEW short, NEW long, NEW size \in Nat, NEW m,
         IsList(short, size), IsList(long, size + 1),
         \A n \in 1..size : long[n] = short[n], long[size + 1] = m
  PROVE  /\ long = Append(short, m)
         /\ Len(short) = size /\ Len(long) = size + 1
         /\ SubSeq(long, 1, Len(long) - 1) = short
<1> DEFINE Any == {short[n] : n \in 1..size} \cup {m}
<1>1. short \in Seq(Any) /\ Len(short) = size
  <2>1. \A n \in 1..size : short[n] \in Any
    OBVIOUS
  <2> HIDE DEF Any
  <2>2. short \in [1..size -> Any]
    BY <2>1 DEF IsList
  <2> QED
    BY <2>2, SeqDef, LenProperties
<1>2. long \in Seq(Any) /\ Len(long) = size + 1
  <2>1. \A n \in 1..(size + 1) : long[n] \in Any
    <3> SUFFICES ASSUME NEW n \in 1..(size + 1) PROVE long[n] \in Any
      OBVIOUS
    <3>1. n \in 1..size \/ n = size + 1
      OBVIOUS
    <3> QED
      BY <3>1
  <2> HIDE DEF Any
  <2>2. long \in [1..(size + 1) -> Any] /\ size + 1 \in Nat
    BY <2>1 DEF IsList
  <2> QED
    BY <2>2, SeqDef, LenProperties
<1>3. m \in Any
  OBVIOUS
<1> HIDE DEF Any
<1>4. long = Append(short, m)
  <2>1. /\ Append(short, m) \in Seq(Any) /\ Len(Append(short, m)) = size + 1
        /\ \A n \in 1..size : Append(short, m)[n] = short[n]
        /\ Append(short, m)[size + 1] = m
    BY <1>1, <1>3, AppendProperties
  <2>2. \A n \in 1..(size + 1) : n \in 1..size \/ n = size + 1
    OBVIOUS
  <2>3. \A n \in 1..(size + 1) : long[n] = Append(short, m)[n]
    BY <2>1, <2>2
  <2> QED
    BY <1>2, <2>1, <2>3, SeqEqual
<1>5. SubSeq(long, 1, Len(long) - 1) = short
  <2>1. /\ SubSeq(long, 1, size) \in Seq(Any) /\ Len(SubSeq(long, 1, size)) = size
        /\ \A n \in 1..size : SubSeq(long, 1, size)[n] = long[n]
    BY <1>2
  <2>2. SubSeq(long, 1, size) = short
    BY <1>1, <2>1, SeqEqual
  <2>3. Len(long) - 1 = size
    BY <1>2
  <2> QED
    BY <2>2, <2>3
<1> QED
  BY <1>1, <1>2, <1>4, <1>5

(* A number greater than all is appended.                                  *)
LEMMA AscendingAppend ==
  ASSUME NEW ids \in SUBSET Int, IsFiniteSet(ids), NEW m \in Int, \A i \in ids : i < m
  PROVE  LET more == ids \cup {m} IN
         /\ Ascending(more) = Append(Ascending(ids), m)
         /\ Len(Ascending(ids)) = Cardinality(ids) /\ Cardinality(ids) \in Nat
         /\ Len(Ascending(more)) = Cardinality(ids) + 1
         /\ Ascending(more)[Len(Ascending(more))] = m
         /\ SubSeq(Ascending(more), 1, Len(Ascending(more)) - 1) = Ascending(ids)
<1> DEFINE more == ids \cup {m}
           size == Cardinality(ids)
           short == Ascending(ids)
           long == Ascending(more)
<1>1. /\ size \in Nat /\ Cardinality(more) = size + 1
      /\ \A n \in 1..size : long[n] = short[n]
      /\ long[size + 1] = m
  BY AscendingAdd
<1>2. IsList(short, size) /\ IsList(long, size + 1)
  BY <1>1 DEF Ascending, IsList
<1> HIDE DEF more, size, short, long
<1>3. /\ long = Append(short, m)
      /\ Len(short) = size /\ Len(long) = size + 1
      /\ SubSeq(long, 1, Len(long) - 1) = short
  BY <1>1, <1>2, OneLonger
<1> QED
  BY <1>1, <1>3 DEF more, size, short, long

LEMMA AscendingNothing == Ascending({}) = <<>>
<1>1. Cardinality({}) = 0
  BY FS_EmptySet
<1> QED
  BY <1>1 DEF Ascending

(* The greatest comes last.                                                *)
LEMMA AscendingTop ==
  ASSUME NEW ids \in SUBSET Int, IsFiniteSet(ids), NEW m \in ids, \A i \in ids : i <= m
  PROVE  /\ Ascending(ids) # <<>>
         /\ Ascending(ids)[Len(Ascending(ids))] = m
<1> DEFINE less == ids \ {m}
<1>1. less \in SUBSET Int /\ m \in Int /\ \A i \in less : i < m
  OBVIOUS
<1>2. IsFiniteSet(less)
  BY FS_Subset
<1>3. ids = less \cup {m}
  OBVIOUS
<1> HIDE DEF less
<1>4. /\ Ascending(ids)[Len(Ascending(ids))] = m
      /\ Len(Ascending(ids)) = Cardinality(less) + 1 /\ Cardinality(less) \in Nat
  BY <1>1, <1>2, <1>3, AscendingAppend
<1>5. Len(<<>>) = 0
  OBVIOUS
<1> QED
  BY <1>4, <1>5

-----------------------------------------------------------------------------
(* The parents of a tree.                                                  *)

Chosen(parents) == CHOOSE parent \in parents : TRUE

ParentsIn(spans, id) == {s.parent : s \in {t \in spans : t.id = id}}

LEMMA ParentSeqIs ==
  ASSUME NEW spans
  PROVE  ParentSeq(spans) =
           [n \in 1..Cardinality(Ids(spans)) |-> Chosen(ParentsIn(spans, n - 1))]
BY DEF ParentSeq, ParentOf, ParentsIn, Chosen

(* A span that is changed or archived keeps its place in the tree.         *)
LEMMA SameTree ==
  ASSUME NEW spans, NEW others,
         \A s \in spans : \E t \in others : t.id = s.id /\ t.parent = s.parent,
         \A t \in others : \E s \in spans : t.id = s.id /\ t.parent = s.parent
  PROVE  ParentSeq(others) = ParentSeq(spans)
<1>1. Ids(others) = Ids(spans)
  BY DEF Ids
<1>2. ASSUME NEW id PROVE ParentsIn(others, id) = ParentsIn(spans, id)
  BY DEF ParentsIn
<1> QED
  BY <1>1, <1>2, ParentSeqIs

LEMMA NumberedSpans ==
  ASSUME NEW last \in Int, last >= -1
  PROVE  IsFiniteSet(0..last) /\ Cardinality(0..last) = last + 1
BY FS_Interval

(* The span with the next id is the next node.                             *)
LEMMA TreeGrows ==
  ASSUME NEW spans, NEW new, NEW last \in Int, last >= -1,
         Ids(spans) = 0..last, new.id = last + 1
  PROVE  /\ ParentSeq(spans \cup {new}) = Append(ParentSeq(spans), new.parent)
         /\ Len(ParentSeq(spans)) = last + 1
<1> DEFINE more == spans \cup {new}
           short == ParentSeq(spans)
           long == ParentSeq(more)
<1>1. Ids(more) = 0..(last + 1)
  <2>1. Ids(more) = 0..last \cup {last + 1}
    BY DEF Ids
  <2>2. 0..last \cup {last + 1} = 0..(last + 1)
    OBVIOUS
  <2> QED
    BY <2>1, <2>2
<1>2. Cardinality(Ids(spans)) = last + 1 /\ Cardinality(Ids(more)) = (last + 1) + 1
  BY <1>1, NumberedSpans
<1>3. ASSUME NEW n \in 1..(last + 1) PROVE ParentsIn(more, n - 1) = ParentsIn(spans, n - 1)
  <2>1. new.id # n - 1
    OBVIOUS
  <2>2. {t \in more : t.id = n - 1} = {t \in spans : t.id = n - 1}
    BY <2>1
  <2> QED
    BY <2>2 DEF ParentsIn
<1>4. ParentsIn(more, last + 1) = {new.parent}
  <2>1. \A t \in spans : t.id # last + 1
    <3>1. \A t \in spans : t.id \in 0..last
      BY DEF Ids
    <3> QED
      BY <3>1
  <2>2. {t \in more : t.id = last + 1} = {new}
    BY <2>1
  <2> QED
    BY <2>2 DEF ParentsIn
<1>5. /\ short = [n \in 1..(last + 1) |-> Chosen(ParentsIn(spans, n - 1))]
      /\ long = [n \in 1..((last + 1) + 1) |-> Chosen(ParentsIn(more, n - 1))]
  BY <1>2, ParentSeqIs
<1> HIDE DEF more, short, long
<1>6. ASSUME NEW n \in 1..(last + 1) PROVE long[n] = short[n]
  <2>1. n \in 1..((last + 1) + 1)
    OBVIOUS
  <2> QED
    BY <1>3, <1>5, <2>1
<1>7. long[(last + 1) + 1] = new.parent
  <2>1. (last + 1) + 1 \in 1..((last + 1) + 1) /\ ((last + 1) + 1) - 1 = last + 1
    OBVIOUS
  <2>2. long[(last + 1) + 1] = Chosen(ParentsIn(more, last + 1))
    BY <1>5, <2>1
  <2> QED
    BY <1>4, <2>2 DEF Chosen
<1>8. IsList(short, last + 1) /\ IsList(long, (last + 1) + 1)
  BY <1>5 DEF IsList
<1>9. last + 1 \in Nat
  OBVIOUS
<1>10. long = Append(short, new.parent) /\ Len(short) = last + 1
  <2> DEFINE size == last + 1
  <2>1. size \in Nat
    BY <1>9
  <2> HIDE DEF size
  <2> QED
    BY <1>6, <1>7, <1>8, <2>1, OneLonger DEF size
<1> QED
  BY <1>10 DEF more, short, long

LEMMA EmptyTree == ParentSeq({}) = <<>>
<1>1. Cardinality(Ids({})) = 0
  BY FS_EmptySet DEF Ids
<1> QED
  BY <1>1, ParentSeqIs
-----------------------------------------------------------------------------
(* Each scope implements CallTree.                                         *)

OpenOf(c) == Ascending(Ids(OwnSpans(c)))

NodesOf(c) == OwnSpans(c) \cup Range(finishedSpans[c])

ParentsOf(c) == ParentSeq(NodesOf(c))

(* The steps of CallTree in terms of the scope.                            *)
TreeStutters(c) ==
  /\ (phase'[c] = "working") <=> (phase[c] = "working")
  /\ OpenOf(c)' = OpenOf(c) /\ ParentsOf(c)' = ParentsOf(c)
  /\ Published(c)' = Published(c)

TreeBegins(c) ==
  /\ phase[c] # "working" /\ phase'[c] = "working" /\ Published(c) = <<>>
  /\ OpenOf(c)' = OpenOf(c) /\ ParentsOf(c)' = ParentsOf(c)
  /\ Published(c)' = Published(c)

TreeOpens(c) ==
  /\ phase[c] = "working" /\ phase'[c] = "working"
  /\ OpenOf(c)' = Append(OpenOf(c), Len(ParentsOf(c)))
  /\ ParentsOf(c)' =
       Append(ParentsOf(c), IF OpenOf(c) = <<>> THEN -1 ELSE OpenOf(c)[Len(OpenOf(c))])
  /\ Published(c)' = Published(c)

TreeCloses(c) ==
  /\ phase[c] = "working" /\ phase'[c] = "working"
  /\ Len(OpenOf(c)) > 1
  /\ OpenOf(c)' = SubSeq(OpenOf(c), 1, Len(OpenOf(c)) - 1)
  /\ ParentsOf(c)' = ParentsOf(c)
  /\ Published(c)' = Published(c)

TreePublishes(c) ==
  /\ phase[c] = "working" /\ phase'[c] # "working"
  /\ Len(OpenOf(c)) = 1
  /\ Published(c)' = Append(Published(c), ParentsOf(c))
  /\ OpenOf(c)' = <<>> /\ ParentsOf(c)' = <<>>

TreeAbandons(c) ==
  /\ phase[c] = "working" /\ phase'[c] # "working"
  /\ OpenOf(c)' = <<>> /\ ParentsOf(c)' = <<>>
  /\ Published(c)' = Published(c)

TreeStep(c) ==
  \/ TreeStutters(c) \/ TreeBegins(c) \/ TreeOpens(c) \/ TreeCloses(c)
  \/ TreePublishes(c) \/ TreeAbandons(c)

LEMMA TreeSteps ==
  ASSUME NEW c \in Contexts, TreeStep(c)
  PROVE  [Tree(c)!TNext]_(Tree(c)!tvars)
<1> USE DEF OpenOf, ParentsOf, NodesOf
<1>1. CASE TreeStutters(c)
  BY <1>1 DEF TreeStutters, Tree!tvars
<1>2. CASE TreeBegins(c)
  BY <1>2 DEF TreeBegins, Tree!TNext, Tree!Begin
<1>3. CASE TreeOpens(c)
  BY <1>3 DEF TreeOpens, Tree!TNext, Tree!Open, Tree!Innermost
<1>4. CASE TreeCloses(c)
  BY <1>4 DEF TreeCloses, Tree!TNext, Tree!Close
<1>5. CASE TreePublishes(c)
  BY <1>5 DEF TreePublishes, Tree!TNext, Tree!Publish
<1>6. CASE TreeAbandons(c)
  BY <1>6 DEF TreeAbandons, Tree!TNext, Tree!Abandon
<1> QED
  BY <1>1, <1>2, <1>3, <1>4, <1>5, <1>6 DEF TreeStep
(* What a scope that is not traced shows.                                  *)
LEMMA NothingToSee ==
  ASSUME Sequential, NEW c \in Contexts, phase[c] # "working"
  PROVE  OwnSpans(c) = {} /\ OpenOf(c) = <<>> /\ ParentsOf(c) = <<>>
<1>1. OwnSpans(c) = {}
  BY OwnSpansAre DEF Sequential, Structured, Owned
<1>2. finishedSpans[c] = <<>>
  BY DEF Sequential, AllNested, Nested
<1>3. NodesOf(c) = {} /\ Ids(OwnSpans(c)) = {}
  BY <1>1, <1>2 DEF NodesOf, Range, Ids
<1> QED
  BY <1>1, <1>3, AscendingNothing, EmptyTree DEF OpenOf, ParentsOf

LEMMA NothingSeen ==
  ASSUME NEW c \in Contexts, OwnSpans(c)' = {}, finishedSpans'[c] = <<>>
  PROVE  OpenOf(c)' = <<>> /\ ParentsOf(c)' = <<>>
<1>1. NodesOf(c)' = {} /\ Ids(OwnSpans(c)') = {}
  BY DEF NodesOf, Range, Ids
<1> QED
  BY <1>1, AscendingNothing, EmptyTree DEF OpenOf, ParentsOf

(* What a traced scope shows.                                              *)
LEMMA TracedScope ==
  ASSUME Sequential, NEW c \in Contexts, phase[c] = "working"
  PROVE  /\ nextSeq[c] \in Int /\ nextSeq[c] >= -1
         /\ finishedSpans[c] \in Seq(Spans) /\ OwnSpans(c) \in SUBSET Spans
         /\ Ids(NodesOf(c)) = 0..nextSeq[c]
         /\ Ids(OwnSpans(c)) \in SUBSET 0..nextSeq[c]
         /\ IsFiniteSet(Ids(OwnSpans(c)))
         /\ Range(spanStack[c]) = Ids(OwnSpans(c))
         /\ 0 \notin Ids(Range(finishedSpans[c]))
<1>1. /\ nextSeq[c] \in Int /\ nextSeq[c] >= -1
      /\ finishedSpans[c] \in Seq(Spans) /\ OwnSpans(c) \in SUBSET Spans
  BY StructuredTypes DEF Sequential, Structured
<1>2. Sound(OwnSpans(c), finishedSpans[c], spanStack[c], nextSeq[c])
  BY DEF Sequential, Structured, ScopesSound, ScopeSound
<1>3. Ids(NodesOf(c)) = 0..nextSeq[c] /\ Ids(OwnSpans(c)) \in SUBSET 0..nextSeq[c]
  BY <1>2, IdsOfUnion DEF Sound, NodesOf
<1>4. IsFiniteSet(Ids(OwnSpans(c)))
  BY <1>1, <1>3, NumberedSpans, FS_Subset
<1>5. 0 \notin Ids(Range(finishedSpans[c]))
  BY <1>2 DEF Sound, Ids
<1>6. Range(spanStack[c]) = Ids(OwnSpans(c))
  BY DEF Sequential, AllNested, Nested
<1> QED
  BY <1>1, <1>3, <1>4, <1>5, <1>6

(* The top of the stack is the innermost open span.                        *)
LEMMA ParentIsInnermost ==
  ASSUME Sequential, NEW c \in Contexts, phase[c] = "working"
  PROVE  ParentSpanId(c) =
           IF OpenOf(c) = <<>> THEN -1 ELSE OpenOf(c)[Len(OpenOf(c))]
<1> DEFINE ids == Ids(OwnSpans(c))
<1>1. /\ Range(spanStack[c]) = ids /\ IsFiniteSet(ids) /\ ids \in SUBSET Int
  BY TracedScope
<1>2. spanStack[c] \in Seq(Nat) /\ AscendingStack(spanStack[c])
  BY StructuredTypes DEF Sequential, Structured, ParentsAreOlder, AscendingStack
<1> HIDE DEF ids
<1>3. CASE spanStack[c] = <<>>
  <2>1. ids = {}
    BY <1>1, <1>3 DEF Range
  <2>2. OpenOf(c) = <<>>
    BY <2>1, AscendingNothing DEF OpenOf, ids
  <2> QED
    BY <1>3, <2>2 DEF ParentSpanId, NoParent
<1>4. CASE spanStack[c] # <<>>
  <2>1. ParentSpanId(c) \in ids /\ \A i \in ids : i <= ParentSpanId(c)
    BY <1>1, <1>2, <1>4, TopIsGreatest DEF ParentSpanId
  <2>2. Ascending(ids) # <<>> /\ Ascending(ids)[Len(Ascending(ids))] = ParentSpanId(c)
    BY <1>1, <2>1, AscendingTop
  <2> QED
    BY <2>2 DEF OpenOf, ids
<1> QED
  BY <1>3, <1>4

(* A scope that is traced, or not yet, has published nothing.              *)
LEMMA NothingPublished ==
  ASSUME Sequential, NEW c \in Contexts, phase[c] \notin {"taken", "exited"}
  PROVE  ReportsOf(c) = {} /\ Published(c) = <<>>
<1>1. ReportsOf(c) = {}
  BY DEF Sequential, ReportedOnce, ReportsOf
<1>2. Cardinality(ReportsOf(c)) = 0
  BY <1>1, FS_EmptySet
<1> QED
  BY <1>1, <1>2 DEF Published

LEMMA PublishedKept ==
  ASSUME Sequential, [SequentialNext]_vars, NEW c \in Contexts,
         ~(phase[c] = "working" /\ phase'[c] = "taken")
  PROVE  Published(c)' = Published(c)
<1>1. CASE reported' = reported
  <2>1. ReportsOf(c)' = ReportsOf(c)
    BY <1>1 DEF ReportsOf
  <2>2. TreesOf(c)' = TreesOf(c)
    BY <1>1, <2>1 DEF TreesOf
  <2> QED
    BY <2>1, <2>2 DEF Published
<1>2. ASSUME NEW b \in Contexts, NEW span \in Spans, NEW done \in Spans,
             Closed(b, span, done), span.id = 0
      PROVE  Published(c)' = Published(c)
  <2>1. Sends(b, span, done)
    BY <1>2, FirstSpanSends DEF Sequential
  <2>2. /\ Len(reported) \in Nat /\ Len(reported') = Len(reported) + 1
        /\ \A i \in 1..Len(reported) : reported'[i] = reported[i]
        /\ reported'[Len(reported) + 1].ctx = b
        /\ phase[b] = "working" /\ phase'[b] = "taken"
    BY <2>1 DEF Sends
  <2>3. b # c
    BY <2>2
  <2>4. ReportsOf(c)' = ReportsOf(c)
    BY <2>2, <2>3 DEF ReportsOf
  <2>5. \A i \in ReportsOf(c) : reported'[i] = reported[i]
    BY <2>2 DEF ReportsOf
  <2>6. TreesOf(c)' = TreesOf(c)
    BY <2>4, <2>5 DEF TreesOf
  <2> QED
    BY <2>4, <2>6 DEF Published
<1> QED
  BY <1>1, <1>2, SequentialIsStructured, SendingStep DEF Sequential

(* The first span publishes the tree.                                      *)
LEMMA TreePublished ==
  ASSUME Sequential, NEW c \in Contexts, NEW span \in Spans, NEW done \in Spans,
         Closed(c, span, done), span.id = 0
  PROVE  Published(c)' = Append(Published(c), ParentsOf(c))
<1> DEFINE spans == Append(finishedSpans[c], done)
           new == Len(reported) + 1
<1>1. Sends(c, span, done)
  BY FirstSpanSends DEF Sequential
<1>2. /\ Len(reported) \in Nat /\ Len(reported') = new
      /\ \A i \in 1..Len(reported) : reported'[i] = reported[i]
      /\ reported'[new].ctx = c /\ reported'[new].spans = spans
      /\ phase[c] = "working"
      /\ OwnSpans(c) = {span} /\ SameIdentity(done, span)
      /\ Range(spans) = Range(finishedSpans[c]) \cup {done}
  BY <1>1 DEF Sends
<1>3. ReportsOf(c) = {} /\ Published(c) = <<>>
  BY <1>2, NothingPublished
<1>4. ReportsOf(c)' = {new}
  <2>1. \A i \in 1..Len(reported) : reported[i].ctx # c
    BY <1>3 DEF ReportsOf
  <2> QED
    BY <1>2, <2>1 DEF ReportsOf
<1>5. TreesOf(c)' = {ParentSeq(Range(spans))}
  BY <1>2, <1>4 DEF TreesOf
<1>6. ParentSeq(Range(spans)) = ParentsOf(c)
  <2>1. NodesOf(c) = Range(finishedSpans[c]) \cup {span}
    BY <1>2 DEF NodesOf
  <2>2. done.id = span.id /\ done.parent = span.parent
    BY <1>2 DEF SameIdentity
  <2> HIDE DEF spans
  <2> QED
    BY <1>2, <2>1, <2>2, SameTree DEF ParentsOf
<1> HIDE DEF spans, new
<1>7. Cardinality(ReportsOf(c)') = 1
  BY <1>4, FS_Singleton
<1>8. Published(c)' = [n \in 1..1 |-> ParentsOf(c)]
  <2>1. (CHOOSE tree \in {ParentsOf(c)} : TRUE) = ParentsOf(c)
    OBVIOUS
  <2> QED
    BY <1>5, <1>6, <1>7, <2>1 DEF Published
<1>9. [n \in 1..1 |-> ParentsOf(c)] = Append(<<>>, ParentsOf(c))
  <2> DEFINE tree == ParentsOf(c)
  <2> HIDE DEF tree
  <2>1. [n \in 1..1 |-> tree] = <<tree>>
    OBVIOUS
  <2> QED
    BY <2>1 DEF tree
<1> QED
  BY <1>3, <1>8, <1>9
LEMMA OpenedIsNode ==
  ASSUME Sequential, [SequentialNext]_vars, NEW c \in Contexts, NEW new \in Spans,
         Opened(c, new)
  PROVE  TreeOpens(c)
<1> DEFINE ids == Ids(OwnSpans(c))
           nodes == NodesOf(c)
           last == nextSeq[c]
<1>1. /\ phase[c] = "working" /\ phase'[c] = "working"
      /\ new.id = last + 1 /\ new.parent = ParentSpanId(c)
      /\ finishedSpans'[c] = finishedSpans[c]
      /\ OwnSpans(c)' = OwnSpans(c) \cup {new}
  BY DEF Opened
<1>2. /\ last \in Int /\ last >= -1 /\ Ids(nodes) = 0..last
      /\ ids \in SUBSET 0..last /\ IsFiniteSet(ids)
  BY <1>1, TracedScope
<1>3. Ids(OwnSpans(c)') = ids \cup {last + 1} /\ NodesOf(c)' = nodes \cup {new}
  BY <1>1 DEF Ids, NodesOf
<1> HIDE DEF ids, nodes, last
<1>4. /\ ParentSeq(nodes \cup {new}) = Append(ParentSeq(nodes), ParentSpanId(c))
      /\ Len(ParentSeq(nodes)) = last + 1
  BY <1>1, <1>2, TreeGrows
<1>5. Ascending(ids \cup {last + 1}) = Append(Ascending(ids), last + 1)
  <2>1. ids \in SUBSET Int /\ last + 1 \in Int /\ \A i \in ids : i < last + 1
    BY <1>2
  <2> QED
    BY <1>2, <2>1, AscendingAppend
<1>6. /\ OpenOf(c)' = Append(OpenOf(c), Len(ParentsOf(c)))
      /\ ParentsOf(c)' = Append(ParentsOf(c), ParentSpanId(c))
  BY <1>3, <1>4, <1>5 DEF OpenOf, ParentsOf, ids, nodes
<1>7. Published(c)' = Published(c)
  BY <1>1, PublishedKept
<1> QED
  BY <1>1, <1>6, <1>7, ParentIsInnermost DEF TreeOpens

LEMMA ReplacedIsStutter ==
  ASSUME Sequential, [SequentialNext]_vars, NEW c \in Contexts,
         NEW span \in Spans, NEW other \in Spans, Replaced(c, span, other)
  PROVE  TreeStutters(c)
<1>1. /\ phase[c] = "working" /\ phase'[c] = "working"
      /\ span \in OwnSpans(c) /\ other.id = span.id /\ other.parent = span.parent
      /\ finishedSpans'[c] = finishedSpans[c]
      /\ OwnSpans(c)' = (OwnSpans(c) \ {span}) \cup {other}
  BY DEF Replaced, SameIdentity
<1>2. Ids(OwnSpans(c)') = Ids(OwnSpans(c))
  BY <1>1 DEF Ids
<1>3. ParentsOf(c)' = ParentsOf(c)
  <2>1. NodesOf(c)' = (OwnSpans(c) \ {span}) \cup {other} \cup Range(finishedSpans[c])
    BY <1>1 DEF NodesOf
  <2>2. \A s \in NodesOf(c) : \E t \in NodesOf(c)' : t.id = s.id /\ t.parent = s.parent
    BY <1>1, <2>1 DEF NodesOf
  <2>3. \A t \in NodesOf(c)' : \E s \in NodesOf(c) : t.id = s.id /\ t.parent = s.parent
    BY <1>1, <2>1 DEF NodesOf
  <2>4. ParentSeq(NodesOf(c)') = ParentSeq(NodesOf(c))
    BY <2>2, <2>3, SameTree
  <2> QED
    BY <2>4 DEF ParentsOf
<1>4. Published(c)' = Published(c)
  BY <1>1, PublishedKept
<1> QED
  BY <1>1, <1>2, <1>3, <1>4 DEF TreeStutters, OpenOf

(* The ids that stay open when the innermost span is closed.               *)
LEMMA InnermostLeaves ==
  ASSUME Sequential, [SequentialNext]_vars, NEW c \in Contexts,
         NEW span \in Spans, NEW done \in Spans, Closed(c, span, done)
  PROVE  LET less == Ids(OwnSpans(c)') IN
         /\ Ids(OwnSpans(c)) = less \cup {span.id}
         /\ less \in SUBSET Int /\ IsFiniteSet(less) /\ span.id \in Int
         /\ \A i \in less : i < span.id
         /\ span.id # 0 => less # {}
         /\ span.id = 0 => less = {}
<1> DEFINE less == Ids(OwnSpans(c)')
           ids == Ids(OwnSpans(c))
<1>1. /\ phase[c] = "working" /\ span \in OwnSpans(c)
      /\ OwnSpans(c)' = OwnSpans(c) \ {span}
      /\ span.id = 0 => OwnSpans(c) = {span}
  BY DEF Closed
<1>2. /\ nextSeq[c] \in Int /\ Ids(NodesOf(c)) = 0..nextSeq[c]
      /\ ids \in SUBSET 0..nextSeq[c] /\ IsFiniteSet(ids)
      /\ OwnSpans(c) \in SUBSET Spans
      /\ 0 \notin Ids(Range(finishedSpans[c]))
  BY <1>1, TracedScope
<1>3. \A s \in OwnSpans(c) : s.id = span.id => s = span
  BY <1>1 DEF Sequential, Structured, Unique, OwnSpans, HeldSpans
<1>4. ids = less \cup {span.id} /\ span.id \notin less
  BY <1>1, <1>3 DEF Ids
<1>5. \A i \in less : i < span.id
  <2>1. Innermost(c, span)
    BY InnermostIsClosed DEF Sequential
  <2>2. \A i \in less : i \in Int /\ i <= span.id /\ i # span.id
    BY <1>1, <1>2, <1>4, <2>1 DEF Innermost, Ids
  <2> QED
    BY <1>2, <1>4, <2>2
<1>6. less \in SUBSET Int /\ IsFiniteSet(less) /\ span.id \in Int
  BY <1>2, <1>4, FS_Subset
<1>7. ASSUME span.id # 0 PROVE less # {}
  <2>1. 0 \in Ids(NodesOf(c))
    BY <1>2, <1>4
  <2>2. 0 \in ids
    BY <1>2, <2>1, IdsOfUnion DEF NodesOf
  <2> QED
    BY <1>4, <1>7, <2>2
<1>8. ASSUME span.id = 0 PROVE less = {}
  BY <1>1, <1>8 DEF Ids
<1> QED
  BY <1>4, <1>5, <1>6, <1>7, <1>8

LEMMA ClosedIsClose ==
  ASSUME Sequential, [SequentialNext]_vars, NEW c \in Contexts,
         NEW span \in Spans, NEW done \in Spans, Closed(c, span, done), span.id # 0
  PROVE  TreeCloses(c)
<1>1. /\ phase[c] = "working" /\ phase'[c] = "working" /\ span \in OwnSpans(c)
      /\ done.id = span.id /\ done.parent = span.parent
      /\ finishedSpans'[c] = Append(finishedSpans[c], done)
      /\ OwnSpans(c)' = OwnSpans(c) \ {span}
  BY DEF Closed, SameIdentity
<1> DEFINE less == Ids(OwnSpans(c)')
           ids == Ids(OwnSpans(c))
<1>2. /\ ids = less \cup {span.id} /\ less # {}
      /\ less \in SUBSET Int /\ IsFiniteSet(less) /\ span.id \in Int
      /\ \A i \in less : i < span.id
  BY InnermostLeaves
<1>3. OpenOf(c) = Ascending(ids) /\ OpenOf(c)' = Ascending(less)
  BY DEF OpenOf
<1>4. Range(finishedSpans'[c]) = Range(finishedSpans[c]) \cup {done}
  <2>1. finishedSpans[c] \in Seq(Spans)
    BY <1>1, TracedScope
  <2> QED
    BY <1>1, <2>1, RangeAppend
<1> HIDE DEF less, ids
<1>5. Len(OpenOf(c)) > 1 /\ OpenOf(c)' = SubSeq(OpenOf(c), 1, Len(OpenOf(c)) - 1)
  <2>1. Cardinality(less) \in Nat /\ Cardinality(less) # 0
    BY <1>2, FS_CardinalityType, FS_EmptySet
  <2>2. /\ Len(Ascending(ids)) = Cardinality(less) + 1
        /\ SubSeq(Ascending(ids), 1, Len(Ascending(ids)) - 1) = Ascending(less)
    BY <1>2, AscendingAppend
  <2> QED
    BY <1>3, <2>1, <2>2
<1>6. ParentsOf(c)' = ParentsOf(c)
  <2>1. NodesOf(c)' = (OwnSpans(c) \ {span}) \cup Range(finishedSpans[c]) \cup {done}
    BY <1>1, <1>4 DEF NodesOf
  <2>2. \A s \in NodesOf(c) : \E t \in NodesOf(c)' : t.id = s.id /\ t.parent = s.parent
    BY <1>1, <2>1 DEF NodesOf
  <2>3. \A t \in NodesOf(c)' : \E s \in NodesOf(c) : t.id = s.id /\ t.parent = s.parent
    BY <1>1, <2>1 DEF NodesOf
  <2>4. ParentSeq(NodesOf(c)') = ParentSeq(NodesOf(c))
    BY <2>2, <2>3, SameTree
  <2> QED
    BY <2>4 DEF ParentsOf
<1>7. Published(c)' = Published(c)
  BY <1>1, PublishedKept
<1> QED
  BY <1>1, <1>5, <1>6, <1>7 DEF TreeCloses

LEMMA ClosedIsPublish ==
  ASSUME Sequential, [SequentialNext]_vars, NEW c \in Contexts,
         NEW span \in Spans, NEW done \in Spans, Closed(c, span, done), span.id = 0
  PROVE  TreePublishes(c)
<1>1. /\ phase[c] = "working" /\ OwnSpans(c) = {span}
      /\ OwnSpans(c)' = OwnSpans(c) \ {span}
      /\ Report(c, Append(finishedSpans[c], done))
  BY DEF Closed
<1>2. phase'[c] = "taken" /\ finishedSpans'[c] = <<>>
  <2>1. phase \in [Contexts -> Phases] /\ finishedSpans \in [Contexts -> Seq(Spans)]
    BY StructuredTypes DEF Sequential, Structured
  <2> QED
    BY <1>1, <2>1 DEF Report
<1>3. OpenOf(c)' = <<>> /\ ParentsOf(c)' = <<>>
  BY <1>1, <1>2, NothingSeen
<1>4. Len(OpenOf(c)) = 1
  <2> DEFINE none == Ids(OwnSpans(c)')
  <2>1. /\ Ids(OwnSpans(c)) = none \cup {span.id} /\ none = {}
        /\ none \in SUBSET Int /\ span.id \in Int /\ \A i \in none : i < span.id
    BY InnermostLeaves
  <2>2. IsFiniteSet(none) /\ Cardinality(none) = 0
    BY <2>1, FS_EmptySet
  <2> HIDE DEF none
  <2>3. Len(Ascending(none \cup {span.id})) = Cardinality(none) + 1
    BY <2>1, <2>2, AscendingAppend
  <2>4. OpenOf(c) = Ascending(none \cup {span.id})
    BY <2>1 DEF OpenOf
  <2> QED
    BY <2>2, <2>3, <2>4
<1>5. Published(c)' = Append(Published(c), ParentsOf(c))
  BY TreePublished
<1> QED
  BY <1>1, <1>2, <1>3, <1>4, <1>5 DEF TreePublishes

LEMMA EveryStepIsTreeStep ==
  ASSUME Sequential, [SequentialNext]_vars, NEW c \in Contexts
  PROVE  TreeStep(c)
<1>1. ScopeStep(c)
  BY SequentialIsStructured, StructuredStep DEF Sequential
<1>2. CASE Still(c)
  <2>1. NodesOf(c)' = NodesOf(c) /\ Published(c)' = Published(c)
    BY <1>2, PublishedKept DEF Still, NodesOf
  <2>2. TreeStutters(c)
    BY <1>2, <2>1 DEF Still, TreeStutters, OpenOf, ParentsOf
  <2> QED
    BY <2>2 DEF TreeStep
<1>3. CASE Entered(c)
  <2>1. /\ phase[c] = "unentered" /\ phase'[c] = "working"
        /\ OwnSpans(c)' = {} /\ finishedSpans'[c] = <<>>
    BY <1>3 DEF Entered
  <2>2. Published(c) = <<>> /\ Published(c)' = Published(c)
    BY <2>1, NothingPublished, PublishedKept
  <2>3. TreeBegins(c)
    BY <2>1, <2>2, NothingToSee, NothingSeen DEF TreeBegins
  <2> QED
    BY <2>3 DEF TreeStep
<1>4. CASE Left(c)
  <2>1. phase'[c] = "exited" /\ OwnSpans(c)' = {} /\ finishedSpans'[c] = <<>>
    BY <1>4 DEF Left
  <2>2. Published(c)' = Published(c) /\ OpenOf(c)' = <<>> /\ ParentsOf(c)' = <<>>
    BY <2>1, PublishedKept, NothingSeen
  <2>3. CASE phase[c] = "working"
    BY <2>1, <2>2, <2>3 DEF TreeAbandons, TreeStep
  <2>4. CASE phase[c] # "working"
    BY <2>1, <2>2, <2>4, NothingToSee DEF TreeStutters, TreeStep
  <2> QED
    BY <2>3, <2>4
<1>5. ASSUME NEW new \in Spans, Opened(c, new) PROVE TreeStep(c)
  BY <1>5, OpenedIsNode DEF TreeStep
<1>6. ASSUME NEW span \in Spans, NEW other \in Spans, Replaced(c, span, other)
      PROVE  TreeStep(c)
  BY <1>6, ReplacedIsStutter DEF TreeStep
<1>7. ASSUME NEW span \in Spans, NEW done \in Spans, Closed(c, span, done)
      PROVE  TreeStep(c)
  BY <1>7, ClosedIsClose, ClosedIsPublish DEF TreeStep
<1> QED
  BY <1>1, <1>2, <1>3, <1>4, <1>5, <1>6, <1>7 DEF ScopeStep

(* Code that nests its spans may think of each scope as a call tree: the   *)
(* parent of a new span is the innermost open one, and the first span      *)
(* publishes the whole tree, once; see ImplementsCallTree.                 *)
THEOREM ScopesImplementCallTree == SequentialSpec => ImplementsCallTree
<1>1. Init => \A c \in Contexts : Tree(c)!TInit
  <2> SUFFICES ASSUME Init, NEW c \in Contexts PROVE Tree(c)!TInit
    OBVIOUS
  <2>1. /\ phase[c] = "unentered" /\ finishedSpans[c] = <<>> /\ reported = <<>>
        /\ \A f \in Futures : held[f] = {}
    BY DEF Init
  <2>2. NodesOf(c) = {} /\ Ids(OwnSpans(c)) = {}
    BY <2>1 DEF NodesOf, OwnSpans, HeldSpans, Range, Ids
  <2>3. OpenOf(c) = <<>> /\ ParentsOf(c) = <<>>
    BY <2>2, AscendingNothing, EmptyTree DEF OpenOf, ParentsOf
  <2>4. Published(c) = <<>>
    <3>1. ReportsOf(c) = {}
      BY <2>1 DEF ReportsOf
    <3>2. Cardinality(ReportsOf(c)) = 0
      BY <3>1, FS_EmptySet
    <3> QED
      BY <3>2 DEF Published
  <2> QED
    BY <2>1, <2>3, <2>4 DEF Tree!TInit, OpenOf, ParentsOf, NodesOf
<1>2. Sequential /\ [SequentialNext]_vars =>
        [\A c \in Contexts : [Tree(c)!TNext]_(Tree(c)!tvars)]_vars
  BY EveryStepIsTreeStep, TreeSteps
<1> QED
  BY <1>1, <1>2, AlwaysSequential, PTL DEF SequentialSpec, ImplementsCallTree
=============================================================================
