--------------------------- MODULE StructuredProofs ---------------------------
(***************************************************************************)
(* Proofs about structured code, for any number of scopes, branches and    *)
(* spans.  The inductive invariant relates, for each scope that is traced, *)
(* its open spans, its archive, its stack and its counter.                 *)
(***************************************************************************)
EXTENDS ContextManagerProofs, FiniteSetTheorems

(* The open spans, archive, stack and counter of a scope fit together.     *)
Sound(own, archived, stack, last) ==
  /\ IsFiniteSet(own)
  /\ Ids(own) \cup Ids(Range(archived)) = 0..last
  /\ Cardinality(own) + Len(archived) = last + 1
  /\ Len(stack) = Cardinality(own)
  /\ stack # <<>> => stack[1] = 0
  /\ \A s \in Range(archived) : s.id # 0 /\ (0 \notin Times => IsEnded(s))
  /\ \A s \in own \cup Range(archived) : s.parent = NoParent <=> s.id = 0

LEMMA IdsOfUnion ==
  ASSUME NEW S, NEW T
  PROVE  Ids(S \cup T) = Ids(S) \cup Ids(T)
BY DEF Ids

LEMMA NothingSound == Sound({}, <<>>, <<>>, -1)
<1>1. IsFiniteSet({}) /\ Cardinality({}) = 0
  BY FS_EmptySet
<1>2. Range(<<>>) = {} /\ Len(<<>>) = 0
  BY DEF Range
<1>3. 0..(-1) = {}
  OBVIOUS
<1> QED
  BY <1>1, <1>2, <1>3 DEF Sound, Ids

(* A span with the next id and the parent on the stack is opened.          *)
LEMMA SoundOpened ==
  ASSUME NEW own \in SUBSET Spans, NEW archived \in Seq(Spans), NEW stack \in Seq(Nat),
         NEW last \in Int, last >= -1, Sound(own, archived, stack, last),
         NEW new \in Spans, new.id = last + 1,
         new.parent = IF stack = <<>> THEN NoParent ELSE stack[Len(stack)]
  PROVE  Sound(own \cup {new}, archived, Append(stack, last + 1), last + 1)
<1>s. /\ Cardinality(own) + Len(archived) = last + 1
      /\ Len(stack) = Cardinality(own)
  BY DEF Sound
<1>0. IsFiniteSet(own) /\ Cardinality(own) \in Nat /\ Len(archived) \in Nat /\ Len(stack) \in Nat
  BY FS_CardinalityType, LenProperties DEF Sound
<1>1. \A s \in own \cup Range(archived) : s.id \in 0..last
  BY DEF Sound, Ids
<1>2. new \notin own
  BY <1>1
<1>3. IsFiniteSet(own \cup {new}) /\ Cardinality(own \cup {new}) = Cardinality(own) + 1
  BY <1>0, <1>2, FS_AddElement
<1>4. Ids(own \cup {new}) \cup Ids(Range(archived)) = 0..(last + 1)
  <2>1. Ids(own \cup {new}) = Ids(own) \cup {last + 1}
    BY IdsOfUnion DEF Ids
  <2>2. 0..(last + 1) = 0..last \cup {last + 1}
    OBVIOUS
  <2> QED
    BY <2>1, <2>2 DEF Sound
<1>5. /\ Append(stack, last + 1) \in Seq(Nat)
      /\ Len(Append(stack, last + 1)) = Len(stack) + 1
      /\ \A i \in 1..Len(stack) : Append(stack, last + 1)[i] = stack[i]
      /\ Append(stack, last + 1)[Len(stack) + 1] = last + 1
  BY AppendProperties
<1>6. stack = <<>> <=> last = -1
  <2>1. CASE stack = <<>>
    <3>1. Cardinality(own) = 0
      BY <2>1, EmptySeq DEF Sound
    <3>2. own = {}
      BY <1>0, <3>1, FS_EmptySet
    <3>3. ASSUME last >= 0 PROVE FALSE
      <4>1. 0 \in Ids(Range(archived))
        <5>1. 0 \in 0..last /\ Ids(own) = {}
          BY <3>2, <3>3 DEF Ids
        <5> QED
          BY <5>1 DEF Sound
      <4> QED
        BY <4>1 DEF Sound, Ids
    <3> QED
      BY <2>1, <3>3
  <2>2. CASE last = -1
    <3>1. Len(stack) = 0
      BY <1>0, <2>2 DEF Sound
    <3> QED
      BY <2>2, <3>1, EmptySeq
  <2> QED
    BY <2>1, <2>2
<1>7. Append(stack, last + 1)[1] = 0
  <2>1. CASE stack = <<>>
    BY <1>5, <1>6, <2>1, EmptySeq
  <2>2. CASE stack # <<>>
    BY <1>0, <1>5, <2>2, EmptySeq DEF Sound
  <2> QED
    BY <2>1, <2>2
<1>8. new.parent = NoParent <=> new.id = 0
  <2>1. CASE stack = <<>>
    BY <1>6, <2>1
  <2>2. CASE stack # <<>>
    <3>1. stack[Len(stack)] \in Nat
      BY <2>2, EmptySeq, ElementOfSeq
    <3> QED
      BY <1>6, <2>2, <3>1 DEF NoParent
  <2> QED
    BY <2>1, <2>2
<1> HIDE DEF NoParent
<1>9. /\ Cardinality(own \cup {new}) + Len(archived) = (last + 1) + 1
      /\ Len(Append(stack, last + 1)) = Cardinality(own \cup {new})
  <2>1. /\ Cardinality(own \cup {new}) = Cardinality(own) + 1
        /\ Len(Append(stack, last + 1)) = Len(stack) + 1
    BY <1>3, <1>5
  <2> QED
    BY <1>0, <1>s, <2>1
<1>10. /\ \A s \in Range(archived) : s.id # 0 /\ (0 \notin Times => IsEnded(s))
       /\ \A s \in (own \cup {new}) \cup Range(archived) : s.parent = NoParent <=> s.id = 0
  BY <1>8 DEF Sound
<1> QED
  BY <1>3, <1>4, <1>7, <1>9, <1>10 DEF Sound

(* An open span is replaced by one with the same id and parent.            *)
LEMMA SoundReplaced ==
  ASSUME NEW own \in SUBSET Spans, NEW archived, NEW stack, NEW last,
         Sound(own, archived, stack, last),
         NEW span \in own, \A s \in own : s.id = span.id => s = span,
         NEW other \in Spans, SameIdentity(other, span)
  PROVE  Sound((own \ {span}) \cup {other}, archived, stack, last)
<1>1. other \notin own \ {span}
  BY DEF SameIdentity
<1>2. IsFiniteSet(own) /\ Cardinality(own) \in Nat
  BY FS_CardinalityType DEF Sound
<1>3. IsFiniteSet(own \ {span}) /\ Cardinality(own \ {span}) = Cardinality(own) - 1
  BY <1>2, FS_RemoveElement
<1>4. /\ IsFiniteSet((own \ {span}) \cup {other})
      /\ Cardinality((own \ {span}) \cup {other}) = Cardinality(own) - 1 + 1
  BY <1>1, <1>3, FS_AddElement
<1>5. Cardinality((own \ {span}) \cup {other}) = Cardinality(own)
  BY <1>2, <1>4
<1>6. Ids((own \ {span}) \cup {other}) = Ids(own)
  BY DEF Ids, SameIdentity
<1>7. \A s \in ((own \ {span}) \cup {other}) \cup Range(archived) : s.parent = NoParent <=> s.id = 0
  BY DEF Sound, SameIdentity
<1> QED
  BY <1>4, <1>5, <1>6, <1>7 DEF Sound

(* What archiving an open span does.                                       *)
Archives(less, archived, done, longer, last) ==
  /\ Range(longer) = Range(archived) \cup {done}
  /\ IsFiniteSet(less)
  /\ Cardinality(less) \in Nat /\ Len(longer) \in Nat
  /\ Cardinality(less) + Len(longer) = last + 1
  /\ Ids(less) \cup Ids(Range(longer)) = 0..last
  /\ \A s \in Range(longer) : 0 \notin Times => IsEnded(s)
  /\ \A s \in less \cup Range(longer) : s.parent = NoParent <=> s.id = 0

LEMMA ArchiveOne ==
  ASSUME NEW own \in SUBSET Spans, NEW archived \in Seq(Spans), NEW stack \in Seq(Nat),
         NEW last \in Int, Sound(own, archived, stack, last),
         NEW span \in own, NEW done \in Spans, SameIdentity(done, span),
         0 \notin Times => IsEnded(done)
  PROVE  /\ Archives(own \ {span}, archived, done, Append(archived, done), last)
         /\ Cardinality(own \ {span}) = Cardinality(own) - 1 /\ Cardinality(own) \in Nat
<1> DEFINE longer == Append(archived, done)
<1>1. Range(longer) = Range(archived) \cup {done}
  BY RangeAppend
<1>2. /\ IsFiniteSet(own) /\ Cardinality(own) \in Nat
      /\ Len(archived) \in Nat /\ Len(longer) = Len(archived) + 1
  BY FS_CardinalityType, LenProperties, AppendProperties DEF Sound
<1>3. IsFiniteSet(own \ {span}) /\ Cardinality(own \ {span}) = Cardinality(own) - 1
  BY <1>2, FS_RemoveElement
<1> HIDE DEF longer
<1>4. Ids(own \ {span}) \cup Ids(Range(longer)) = Ids(own) \cup Ids(Range(archived))
  BY <1>1 DEF Ids, SameIdentity
<1>5. Cardinality(own \ {span}) + Len(longer) = last + 1
  BY <1>2, <1>3 DEF Sound
<1>6. \A s \in Range(longer) : 0 \notin Times => IsEnded(s)
  BY <1>1 DEF Sound
<1>7. \A s \in (own \ {span}) \cup Range(longer) : s.parent = NoParent <=> s.id = 0
  BY <1>1 DEF Sound, SameIdentity
<1>8. Ids(own \ {span}) \cup Ids(Range(longer)) = 0..last
  BY <1>4 DEF Sound
<1>9. Cardinality(own \ {span}) \in Nat /\ Len(longer) \in Nat
  BY <1>2, <1>3, FS_CardinalityType
<1> QED
  BY <1>1, <1>2, <1>3, <1>5, <1>6, <1>7, <1>8, <1>9 DEF longer, Archives

(* A span other than the first is finished.                                *)
LEMMA SoundFinished ==
  ASSUME NEW own \in SUBSET Spans, NEW archived \in Seq(Spans), NEW stack \in Seq(Nat),
         NEW last \in Int, Sound(own, archived, stack, last),
         NEW span \in own, span.id # 0, NEW done \in Spans, SameIdentity(done, span),
         0 \notin Times => IsEnded(done)
  PROVE  Sound(own \ {span}, Append(archived, done), Pop(stack), last)
<1> DEFINE longer == Append(archived, done)
           less == own \ {span}
<1>a. /\ Archives(less, archived, done, longer, last)
      /\ Cardinality(less) = Cardinality(own) - 1 /\ Cardinality(own) \in Nat
  BY ArchiveOne
<1>s. Len(stack) = Cardinality(own) /\ (stack # <<>> => stack[1] = 0)
  BY DEF Sound
<1> HIDE DEF longer, less
<1>1. \A s \in Range(longer) : s.id # 0
  BY <1>a DEF Archives, Sound, SameIdentity
(* The first span is still open, so that the stack has two entries.        *)
<1>2. Cardinality(less) # 0
  <2>1. 0 \in 0..last
    <3>1. span.id \in 0..last
      BY DEF Sound, Ids
    <3>2. span.id \in Int /\ last \in Int
      BY <3>1
    <3> QED
      BY <3>1, <3>2
  <2>2. 0 \in Ids(less)
    BY <1>1, <1>a, <2>1 DEF Archives, Ids
  <2>3. less # {}
    BY <2>2 DEF Ids
  <2> QED
    BY <1>a, <2>3, FS_EmptySet DEF Archives
<1>3. Len(stack) = Cardinality(own) /\ Len(stack) \in Nat /\ Len(stack) >= 2
  BY <1>a, <1>2, <1>s DEF Archives
<1>4. Pop(stack) = SubSeq(stack, 1, Len(stack) - 1) /\ stack # <<>>
  BY <1>3, EmptySeq DEF Pop
<1>5. Len(Pop(stack)) = Len(stack) - 1 /\ Pop(stack)[1] = stack[1]
  <2> DEFINE n == Len(stack) - 1
  <2>1. n \in Nat /\ n >= 1 /\ n <= Len(stack)
    BY <1>3
  <2>2. Len(SubSeq(stack, 1, n)) = n /\ SubSeq(stack, 1, n)[1] = stack[1]
    BY <2>1
  <2> QED
    BY <1>4, <2>2
<1>6. Len(Pop(stack)) = Cardinality(less) /\ Pop(stack)[1] = 0
  BY <1>a, <1>3, <1>4, <1>5, <1>s
<1>7. /\ IsFiniteSet(less) /\ Cardinality(less) + Len(longer) = last + 1
      /\ Ids(less) \cup Ids(Range(longer)) = 0..last
  BY <1>a DEF Archives
<1>8. /\ \A s \in Range(longer) : s.id # 0 /\ (0 \notin Times => IsEnded(s))
      /\ \A s \in less \cup Range(longer) : s.parent = NoParent <=> s.id = 0
  BY <1>a, <1>1 DEF Archives
<1> DEFINE rest == Pop(stack)
<1> HIDE DEF rest
<1>9. Sound(less, longer, rest, last)
  BY <1>6, <1>7, <1>8 DEF rest, Sound
<1> QED
  BY <1>9 DEF rest, longer, less

(* Nothing is open any more: longer is a whole segment.                    *)
Completes(archived, done, longer, last) ==
  /\ Range(longer) = Range(archived) \cup {done}
  /\ Len(longer) = last + 1
  /\ Ids(Range(longer)) = 0..last
  /\ \A s \in Range(longer) : 0 \notin Times => IsEnded(s)
  /\ \A s \in Range(longer) : s.parent = NoParent <=> s.id = 0

(* The first span is finished, as the last open one.                       *)
LEMMA SoundCompleted ==
  ASSUME NEW own \in SUBSET Spans, NEW archived \in Seq(Spans), NEW stack \in Seq(Nat),
         NEW last \in Int, Sound(own, archived, stack, last),
         NEW span \in own, own = {span}, NEW done \in Spans, SameIdentity(done, span),
         0 \notin Times => IsEnded(done)
  PROVE  Completes(archived, done, Append(archived, done), last)
<1>1. own \ {span} = {} /\ Ids({}) = {} /\ Cardinality({}) = 0
  BY FS_EmptySet DEF Ids
<1> DEFINE longer == Append(archived, done)
<1>a. Archives(own \ {span}, archived, done, longer, last)
  BY ArchiveOne
<1>2. Archives({}, archived, done, longer, last)
  BY <1>1, <1>a
<1>3. Len(longer) = last + 1
  BY <1>1, <1>2 DEF Archives
<1>4. Ids(Range(longer)) = 0..last
  BY <1>1, <1>2 DEF Archives
<1> QED
  BY <1>2, <1>3, <1>4 DEF longer, Archives, Completes

-----------------------------------------------------------------------------
(* The state of all scopes.                                                *)

(* A handle is with one future, in the scope it belongs to, while that is  *)
(* traced; two open spans have different ids.                              *)
Owned ==
  \A f \in Futures : \A s \in held[f] : s.ctx = Home[f] /\ phase[Home[f]] = "working"

Unique ==
  \A f, g \in Futures : \A s \in held[f], t \in held[g] :
    (s.ctx = t.ctx /\ s.id = t.id) => (f = g /\ s = t)

ScopeSound(c) ==
  /\ Sound(OwnSpans(c), finishedSpans[c], spanStack[c], nextSeq[c])
  /\ \A s \in Range(finishedSpans[c]) : s.ctx = c

ScopesSound == \A c \in Contexts : phase[c] = "working" => ScopeSound(c)

Structured == TypeOK /\ Owned /\ Unique /\ ScopesSound /\ FreshScopes

LEMMA StructuredTypes ==
  TypeOK => /\ phase \in [Contexts -> Phases] /\ nextSeq \in [Contexts -> Int]
            /\ spanStack \in [Contexts -> Seq(Nat)]
            /\ finishedSpans \in [Contexts -> Seq(Spans)]
            /\ held \in [Futures -> SUBSET Spans]
            /\ traceId \in [Contexts -> NewTraceIds \cup TraceIds]
            /\ \A c \in Contexts : nextSeq[c] >= -1
            /\ \A c \in Contexts : OwnSpans(c) \subseteq Spans
<1> SUFFICES ASSUME TypeOK PROVE \A c \in Contexts : OwnSpans(c) \subseteq Spans
  BY DEF TypeOK
<1> QED
  BY DEF TypeOK, OwnSpans, HeldSpans

(* Nothing of a scope changes but, perhaps, who holds its spans.           *)
Still(c) ==
  /\ phase'[c] = phase[c] /\ nextSeq'[c] = nextSeq[c]
  /\ spanStack'[c] = spanStack[c] /\ finishedSpans'[c] = finishedSpans[c]
  /\ OwnSpans(c)' = OwnSpans(c)

Entered(c) ==
  /\ phase[c] = "unentered" /\ phase'[c] = "working" /\ nextSeq'[c] = -1
  /\ spanStack'[c] = <<>> /\ finishedSpans'[c] = <<>>
  /\ OwnSpans(c)' = {}

Left(c) ==
  /\ phase'[c] = "exited" /\ OwnSpans(c)' = {}
  /\ spanStack'[c] = <<>> /\ finishedSpans'[c] = <<>>
  /\ nextSeq'[c] = nextSeq[c] /\ reported' = reported

Opened(c, new) ==
  /\ phase[c] = "working" /\ phase'[c] = "working"
  /\ new \in Spans /\ new.ctx = c /\ new.id = nextSeq[c] + 1 /\ new.parent = ParentSpanId(c)
  /\ nextSeq'[c] = nextSeq[c] + 1
  /\ spanStack'[c] = Append(spanStack[c], nextSeq[c] + 1)
  /\ finishedSpans'[c] = finishedSpans[c]
  /\ OwnSpans(c)' = OwnSpans(c) \cup {new}

Replaced(c, span, other) ==
  /\ phase[c] = "working" /\ phase'[c] = "working"
  /\ span \in OwnSpans(c) /\ other \in Spans /\ SameIdentity(other, span)
  /\ nextSeq'[c] = nextSeq[c]
  /\ spanStack'[c] = spanStack[c] /\ finishedSpans'[c] = finishedSpans[c]
  /\ OwnSpans(c)' = (OwnSpans(c) \ {span}) \cup {other}

Closed(c, span, done) ==
  /\ phase[c] = "working"
  /\ span \in OwnSpans(c) /\ done \in Spans /\ SameIdentity(done, span)
  /\ 0 \notin Times => IsEnded(done)
  /\ nextSeq'[c] = nextSeq[c]
  /\ OwnSpans(c)' = OwnSpans(c) \ {span}
  /\ IF span.id = 0
     THEN /\ OwnSpans(c) = {span}
          /\ Report(c, Append(finishedSpans[c], done))
     ELSE /\ phase'[c] = "working"
          /\ finishedSpans'[c] = Append(finishedSpans[c], done)
          /\ spanStack'[c] = Pop(spanStack[c])

(* What can happen to one scope in a step.                                 *)
ScopeStep(c) ==
  \/ Still(c) \/ Entered(c) \/ Left(c)
  \/ \E new \in Spans : Opened(c, new)
  \/ \E span, other \in Spans : Replaced(c, span, other)
  \/ \E span, done \in Spans : Closed(c, span, done)

LEMMA EndedDone ==
  ASSUME NEW span \in Spans, NEW done \in Finished(span), 0 \notin Times
  PROVE  IsEnded(done)
<1>1. PICK now \in Times, again \in Times :
        done = IF IsEnded(End(span, now)) THEN End(span, now) ELSE End(End(span, now), again)
  BY DEF Finished
<1>2. now # 0 /\ End(span, now) \in Spans
  BY EndedSpan
<1>3. End(span, now).end = now
  BY <1>2 DEF End, MillisOr, Spans
<1> QED
  BY <1>1, <1>2, <1>3 DEF IsEnded

(* The spans of a scope after one future's handles have changed.           *)
LEMMA OwnSpansAre ==
  ASSUME NEW c \in Contexts, NEW s
  PROVE  /\ s \in OwnSpans(c) <=> (s.ctx = c /\ \E f \in Futures : s \in held[f])
         /\ s \in OwnSpans(c)' <=> (s.ctx = c /\ \E f \in Futures : s \in held'[f])
BY DEF OwnSpans, HeldSpans

LEMMA EnterStep ==
  ASSUME Structured, NEW b \in Contexts, AsyncEnter(b)
  PROVE  Owned' /\ Unique' /\ \A c \in Contexts : ScopeStep(c)
<1>t. /\ phase \in [Contexts -> Phases] /\ nextSeq \in [Contexts -> Int]
      /\ spanStack \in [Contexts -> Seq(Nat)] /\ finishedSpans \in [Contexts -> Seq(Spans)]
  BY StructuredTypes DEF Structured
<1>1. UNCHANGED held /\ phase[b] = "unentered"
  BY DEF AsyncEnter
<1>2. Owned'
  BY <1>t, <1>1, ContextManagerAssumption DEF AsyncEnter, Structured, Owned
<1>3. Unique'
  BY <1>1 DEF Structured, Unique
<1>4. \A c \in Contexts : OwnSpans(c)' = OwnSpans(c)
  BY <1>1 DEF OwnSpans, HeldSpans
<1>5. OwnSpans(b) = {}
  BY <1>1, OwnSpansAre DEF Structured, Owned
<1>6. Entered(b)
  BY <1>t, <1>1, <1>4, <1>5 DEF AsyncEnter, Entered
<1>7. \A c \in Contexts \ {b} : Still(c)
  BY <1>t, <1>4 DEF AsyncEnter, Still
<1> QED
  BY <1>2, <1>3, <1>6, <1>7 DEF ScopeStep

LEMMA LeaveStep ==
  ASSUME Structured, NEW b \in Contexts, LeaveScope(b)
  PROVE  Owned' /\ Unique' /\ \A c \in Contexts : ScopeStep(c)
<1>t. /\ phase \in [Contexts -> Phases] /\ nextSeq \in [Contexts -> Int]
      /\ spanStack \in [Contexts -> Seq(Nat)] /\ finishedSpans \in [Contexts -> Seq(Spans)]
      /\ held \in [Futures -> SUBSET Spans]
  BY StructuredTypes DEF Structured
<1>1. \A f \in Futures : held'[f] = IF Home[f] = b THEN {} ELSE held[f]
  BY DEF LeaveScope
<1>2. phase' = [phase EXCEPT ![b] = "exited"]
  BY DEF LeaveScope
<1>3. Owned'
  BY <1>t, <1>1, <1>2, ContextManagerAssumption DEF Structured, Owned
<1>4. Unique'
  BY <1>1 DEF Structured, Unique
<1>5. OwnSpans(b)' = {}
  BY <1>1, OwnSpansAre DEF Structured, Owned
<1>6. Left(b)
  BY <1>t, <1>2, <1>5 DEF Left, LeaveScope
<1>7. ASSUME NEW c \in Contexts \ {b} PROVE OwnSpans(c)' = OwnSpans(c)
  <2>1. ASSUME NEW s \in OwnSpans(c) PROVE s \in OwnSpans(c)'
    BY <1>1, <1>7, OwnSpansAre DEF Structured, Owned
  <2>2. ASSUME NEW s \in OwnSpans(c)' PROVE s \in OwnSpans(c)
    BY <1>1, <1>7, OwnSpansAre DEF Structured, Owned
  <2> QED
    BY <2>1, <2>2
<1>8. \A c \in Contexts \ {b} : Still(c)
  BY <1>t, <1>7 DEF LeaveScope, Still
<1> QED
  BY <1>3, <1>4, <1>6, <1>8 DEF ScopeStep

(* The open spans of a scope as a function of who holds what.              *)
SpansIn(holding, c) == {s \in UNION {holding[f] : f \in Futures} : s.ctx = c}

LEMMA SpansInAre ==
  \A holding, c, s :
    s \in SpansIn(holding, c) <=> (s.ctx = c /\ \E f \in Futures : s \in holding[f])
BY DEF SpansIn

(* f gives up the spans lost and gets the spans won, all of scope b.       *)
Trades(f, b, lost, won) ==
  /\ \A g \in Futures : held'[g] = IF g = f THEN (held[g] \ lost) \cup won ELSE held[g]
  /\ \A s \in lost : s.ctx = b /\ \A g \in Futures : s \in held[g] => g = f
  /\ \A s \in won : s.ctx = b

LEMMA SpansChange ==
  ASSUME NEW f \in Futures, NEW b, NEW lost, NEW won, Trades(f, b, lost, won)
  PROVE  /\ SpansIn(held', b) = (SpansIn(held, b) \ lost) \cup won
         /\ \A c : c # b => SpansIn(held', c) = SpansIn(held, c)
<1> USE DEF Trades
<1>1. ASSUME NEW c, NEW s \in SpansIn(held', c)
      PROVE  s \in SpansIn(held, c) \ lost \/ (s \in won /\ c = b)
  <2>1. PICK g \in Futures : s \in held'[g] /\ s.ctx = c
    BY <1>1, SpansInAre
  <2>2. s \in won \/ (s \in held[g] /\ s \notin lost)
    BY <2>1
  <2> QED
    BY <2>1, <2>2, SpansInAre
<1>2. ASSUME NEW c, NEW s \in SpansIn(held, c), s \notin lost
      PROVE  s \in SpansIn(held', c)
  <2>1. PICK g \in Futures : s \in held[g] /\ s.ctx = c
    BY <1>2, SpansInAre
  <2>2. s \in held'[g]
    BY <1>2, <2>1
  <2> QED
    BY <2>1, <2>2, SpansInAre
<1>3. ASSUME NEW s \in won PROVE s \in SpansIn(held', b)
  <2>1. s \in held'[f] /\ s.ctx = b
    BY <1>3
  <2> QED
    BY <2>1, SpansInAre
<1>4. SpansIn(held', b) = (SpansIn(held, b) \ lost) \cup won
  BY <1>1, <1>2, <1>3
<1>5. ASSUME NEW c, c # b PROVE SpansIn(held', c) = SpansIn(held, c)
  <2>1. \A s \in SpansIn(held', c) : s \in SpansIn(held, c)
    BY <1>1, <1>5
  <2>2. \A s \in SpansIn(held, c) : s \in SpansIn(held', c)
    BY <1>2, <1>5, SpansInAre
  <2>3. SpansIn(held', c) \subseteq SpansIn(held, c) /\ SpansIn(held, c) \subseteq SpansIn(held', c)
    BY <2>1, <2>2
  <2> QED
    BY <2>3
<1> QED
  BY <1>4, <1>5

LEMMA OwnSpansInHeld ==
  ASSUME NEW c \in Contexts
  PROVE  OwnSpans(c) = SpansIn(held, c) /\ OwnSpans(c)' = SpansIn(held', c)
BY DEF OwnSpans, HeldSpans, SpansIn

LEMMA CreateStep ==
  ASSUME Structured, NEW f \in Futures, Create(f)
  PROVE  Owned' /\ Unique' /\ \A c \in Contexts : ScopeStep(c)
<1> DEFINE b == Home[f]
<1>t. /\ phase \in [Contexts -> Phases] /\ nextSeq \in [Contexts -> Int]
      /\ spanStack \in [Contexts -> Seq(Nat)] /\ finishedSpans \in [Contexts -> Seq(Spans)]
      /\ held \in [Futures -> SUBSET Spans] /\ b \in Contexts
  BY StructuredTypes, ContextManagerAssumption DEF Structured
<1>o. \A g \in Futures : \A s \in held[g] : s.ctx = Home[g] /\ phase[Home[g]] = "working"
  BY DEF Structured, Owned
<1>u. \A g, h \in Futures : \A s \in held[g], u \in held[h] :
        (s.ctx = u.ctx /\ s.id = u.id) => (g = h /\ s = u)
  BY DEF Structured, Unique
<1>1. PICK kind \in Kinds : CreateSpan(f, kind)
  BY DEF Create, TracingEntry, TracingLocal, TracingExit, Kinds
<1>2. PICK now \in Times : held' = [held EXCEPT ![f] = @ \cup {NewSpan(f, kind, now)}]
  BY <1>1 DEF CreateSpan
<1> DEFINE new == NewSpan(f, kind, now)
<1>3. new \in Spans /\ new.ctx = b /\ new.id = nextSeq[b] + 1 /\ new.parent = ParentSpanId(b)
  BY NewSpanType DEF Structured
<1>4. /\ phase' = phase /\ phase[b] = "working" /\ finishedSpans' = finishedSpans
      /\ nextSeq' = [nextSeq EXCEPT ![b] = @ + 1]
      /\ spanStack' = [spanStack EXCEPT ![b] = Append(@, nextSeq[b] + 1)]
  BY <1>1 DEF CreateSpan, NextSpanId
<1>5. \A g \in Futures : held'[g] = IF g = f THEN held[g] \cup {new} ELSE held[g]
  BY <1>t, <1>2
<1> HIDE DEF new, b
<1>6. ASSUME NEW g \in Futures, NEW s \in held[g], s.ctx = b PROVE s.id # new.id
  <2>1. s \in OwnSpans(b)
    BY <1>6, <1>t, OwnSpansAre
  <2>2. s.id \in 0..nextSeq[b]
    BY <1>t, <1>4, <2>1 DEF Structured, ScopesSound, ScopeSound, Sound, Ids
  <2> QED
    BY <1>t, <1>3, <2>2
<1>7. Owned'
  BY <1>o, <1>3, <1>4, <1>5 DEF Owned, b
<1>8. Unique'
  <2>0. \A g \in Futures : \A s \in held[g] : s.ctx # new.ctx \/ s.id # new.id
    BY <1>3, <1>6
  <2> SUFFICES ASSUME NEW g \in Futures, NEW h \in Futures, NEW s \in held'[g], NEW u \in held'[h],
                      s.ctx = u.ctx, s.id = u.id
               PROVE  g = h /\ s = u
    BY DEF Unique
  <2>1. (s \in held[g] \/ (g = f /\ s = new)) /\ (u \in held[h] \/ (h = f /\ u = new))
    BY <1>5
  <2> QED
    BY <1>u, <2>0, <2>1
<1>s. /\ SpansIn(held', b) = (SpansIn(held, b) \ {}) \cup {new}
      /\ \A c : c # b => SpansIn(held', c) = SpansIn(held, c)
  <2>1. \A g \in Futures : held'[g] = IF g = f THEN (held[g] \ {}) \cup {new} ELSE held[g]
    BY <1>5
  <2>2. \A s \in {} : s.ctx = b /\ \A g \in Futures : s \in held[g] => g = f
    BY <1>3
  <2>3. \A s \in {new} : s.ctx = b
    BY <1>3
  <2>4. Trades(f, b, {}, {new})
    BY <2>1, <2>2, <2>3 DEF Trades
  <2> QED
    BY <2>4, SpansChange
<1>9. OwnSpans(b)' = OwnSpans(b) \cup {new}
  BY <1>t, <1>s, OwnSpansInHeld
<1>10. \A c \in Contexts \ {b} : OwnSpans(c)' = OwnSpans(c)
  BY <1>s, OwnSpansInHeld
<1>11. Opened(b, new)
  BY <1>t, <1>3, <1>4, <1>9 DEF Opened
<1>12. \A c \in Contexts \ {b} : Still(c)
  BY <1>t, <1>4, <1>10 DEF Still
<1> QED
  BY <1>3, <1>7, <1>8, <1>11, <1>12 DEF ScopeStep

LEMMA FinishStep ==
  ASSUME Structured, NEW f \in Futures, NEW span \in held[f],
         FinishSpan(f, span), IsLastOpen(f, span)
  PROVE  Owned' /\ Unique' /\ \A c \in Contexts : ScopeStep(c)
<1> DEFINE b == Home[f]
<1>t. /\ phase \in [Contexts -> Phases] /\ nextSeq \in [Contexts -> Int]
      /\ spanStack \in [Contexts -> Seq(Nat)] /\ finishedSpans \in [Contexts -> Seq(Spans)]
      /\ held \in [Futures -> SUBSET Spans] /\ b \in Contexts
  BY StructuredTypes, ContextManagerAssumption DEF Structured
<1>o. \A g \in Futures : \A s \in held[g] : s.ctx = Home[g] /\ phase[Home[g]] = "working"
  BY DEF Structured, Owned
<1>u. \A g, h \in Futures : \A s \in held[g], u \in held[h] :
        (s.ctx = u.ctx /\ s.id = u.id) => (g = h /\ s = u)
  BY DEF Structured, Unique
<1>1. span \in Spans /\ span.ctx = b /\ phase[b] = "working" /\ span \in OwnSpans(b)
  BY <1>t, OwnSpansAre DEF Structured, Owned
<1>2. nextSeq' = nextSeq /\ \A g \in Futures : held'[g] = IF g = f THEN held[g] \ {span} ELSE held[g]
  BY <1>t DEF FinishSpan
<1>3. PICK done \in Finished(span) :
        IF span.id = 0
        THEN Report(b, Append(finishedSpans[b], done))
        ELSE /\ finishedSpans' = [finishedSpans EXCEPT ![b] = Append(@, done)]
             /\ spanStack' = [spanStack EXCEPT ![b] = Pop(@)]
             /\ UNCHANGED <<phase, reported>>
  BY <1>1 DEF FinishSpan, IsFirstSpan
<1>4. done \in Spans /\ SameIdentity(done, span) /\ (0 \notin Times => IsEnded(done))
  BY <1>1, <1>3, FinishedSpan, EndedDone
<1>5. span.id = 0 => OwnSpans(b) = {span}
  BY <1>1 DEF IsLastOpen, OwnSpans
<1>6. /\ \A c \in Contexts \ {b} : /\ phase'[c] = phase[c] /\ spanStack'[c] = spanStack[c]
                                   /\ finishedSpans'[c] = finishedSpans[c]
      /\ span.id # 0 => /\ phase'[b] = "working" /\ spanStack'[b] = Pop(spanStack[b])
                        /\ finishedSpans'[b] = Append(finishedSpans[b], done)
      /\ span.id = 0 => Report(b, Append(finishedSpans[b], done))
  BY <1>t, <1>1, <1>3 DEF Report
<1> HIDE DEF b
<1>s. /\ SpansIn(held', b) = (SpansIn(held, b) \ {span}) \cup {}
      /\ \A c : c # b => SpansIn(held', c) = SpansIn(held, c)
  <2>1. \A g \in Futures : held'[g] = IF g = f THEN (held[g] \ {span}) \cup {} ELSE held[g]
    BY <1>2
  <2>2. \A s \in {span} : s.ctx = b /\ \A g \in Futures : s \in held[g] => g = f
    BY <1>u, <1>1
  <2>3. \A s \in {} : s.ctx = b
    BY <1>1
  <2>4. Trades(f, b, {span}, {})
    BY <2>1, <2>2, <2>3 DEF Trades
  <2> QED
    BY <2>4, SpansChange
<1>8. OwnSpans(b)' = OwnSpans(b) \ {span}
  BY <1>t, <1>s, OwnSpansInHeld
<1>9. \A c \in Contexts \ {b} : OwnSpans(c)' = OwnSpans(c)
  BY <1>s, OwnSpansInHeld
<1>10. Owned'
  <2> SUFFICES ASSUME NEW g \in Futures, NEW s \in held'[g]
               PROVE  s.ctx = Home[g] /\ phase'[Home[g]] = "working"
    BY DEF Owned
  <2>1. s \in held[g] /\ s.ctx = Home[g] /\ phase[Home[g]] = "working" /\ Home[g] \in Contexts
    BY <1>o, <1>2, ContextManagerAssumption
  <2>2. s \in OwnSpans(s.ctx)'
    BY <2>1, OwnSpansAre
  <2>3. CASE s.ctx = b
    BY <1>5, <1>6, <1>8, <2>1, <2>2, <2>3
  <2>4. CASE s.ctx # b
    BY <1>6, <2>1, <2>4
  <2> QED
    BY <2>3, <2>4
<1>11. Unique'
  <2> SUFFICES ASSUME NEW g \in Futures, NEW h \in Futures, NEW s \in held'[g], NEW u \in held'[h],
                      s.ctx = u.ctx, s.id = u.id
               PROVE  g = h /\ s = u
    BY DEF Unique
  <2>1. s \in held[g] /\ u \in held[h]
    BY <1>2
  <2> QED
    BY <1>u, <2>1
<1>12. Closed(b, span, done)
  BY <1>1, <1>2, <1>4, <1>5, <1>6, <1>8 DEF Closed
<1>13. \A c \in Contexts \ {b} : Still(c)
  BY <1>2, <1>6, <1>9 DEF Still
<1> QED
  BY <1>1, <1>4, <1>10, <1>11, <1>12, <1>13 DEF ScopeStep

LEMMA EndStep ==
  ASSUME Structured, NEW f \in Futures, NEW span \in held[f], EndSpan(f, span)
  PROVE  Owned' /\ Unique' /\ \A c \in Contexts : ScopeStep(c)
<1> DEFINE b == Home[f]
<1>t. held \in [Futures -> SUBSET Spans] /\ b \in Contexts
  BY StructuredTypes, ContextManagerAssumption DEF Structured
<1>o. \A g \in Futures : \A s \in held[g] : s.ctx = Home[g] /\ phase[Home[g]] = "working"
  BY DEF Structured, Owned
<1>u. \A g, h \in Futures : \A s \in held[g], u \in held[h] :
        (s.ctx = u.ctx /\ s.id = u.id) => (g = h /\ s = u)
  BY DEF Structured, Unique
<1>1. span \in Spans /\ span.ctx = b /\ phase[b] = "working" /\ span \in OwnSpans(b)
  BY <1>t, OwnSpansAre DEF Structured, Owned
<1>2. UNCHANGED <<phase, nextSeq, spanStack, finishedSpans>>
  BY DEF EndSpan
<1>3. PICK now \in Times : held' = [held EXCEPT ![f] = (@ \ {span}) \cup {End(span, now)}]
  BY DEF EndSpan
<1> DEFINE other == End(span, now)
<1>4. other \in Spans /\ SameIdentity(other, span)
  BY <1>1, EndedSpan
<1>5. \A g \in Futures : held'[g] = IF g = f THEN (held[g] \ {span}) \cup {other} ELSE held[g]
  BY <1>t, <1>3
<1> HIDE DEF other, b
<1>6. Owned'
  BY <1>o, <1>1, <1>2, <1>4, <1>5 DEF Owned, SameIdentity, b
<1>7. Unique'
  <2>1. ASSUME NEW g \in Futures, NEW s \in held'[g], s.ctx = span.ctx, s.id = span.id
        PROVE  g = f /\ s = other
    <3>1. s \in held[g] \/ (g = f /\ s = other)
      BY <1>5
    <3>2. CASE s \in held[g]
      <4>1. g = f /\ s = span
        BY <1>u, <2>1, <3>2
      <4> QED
        BY <1>5, <2>1, <4>1
    <3> QED
      BY <3>1, <3>2
  <2>2. other.ctx = span.ctx /\ other.id = span.id
    BY <1>4 DEF SameIdentity
  <2>3. \A g \in Futures : \A s \in held'[g] : s # other => s \in held[g]
    BY <1>5
  <2> SUFFICES ASSUME NEW g \in Futures, NEW h \in Futures, NEW s \in held'[g], NEW u \in held'[h],
                      s.ctx = u.ctx, s.id = u.id
               PROVE  g = h /\ s = u
    BY DEF Unique
  <2>4. CASE s = other \/ u = other
    BY <2>1, <2>2, <2>4
  <2>5. CASE s # other /\ u # other
    BY <1>u, <2>3, <2>5
  <2> QED
    BY <2>4, <2>5
<1>s. /\ SpansIn(held', b) = (SpansIn(held, b) \ {span}) \cup {other}
      /\ \A c : c # b => SpansIn(held', c) = SpansIn(held, c)
  <2>1. \A g \in Futures : held'[g] = IF g = f THEN (held[g] \ {span}) \cup {other} ELSE held[g]
    BY <1>5
  <2>2. \A s \in {span} : s.ctx = b /\ \A g \in Futures : s \in held[g] => g = f
    BY <1>u, <1>1
  <2>3. \A s \in {other} : s.ctx = b
    BY <1>1, <1>4 DEF SameIdentity
  <2>4. Trades(f, b, {span}, {other})
    BY <2>1, <2>2, <2>3 DEF Trades
  <2> QED
    BY <2>4, SpansChange
<1>9. OwnSpans(b)' = (OwnSpans(b) \ {span}) \cup {other}
  BY <1>t, <1>s, OwnSpansInHeld
<1>10. \A c \in Contexts \ {b} : OwnSpans(c)' = OwnSpans(c)
  BY <1>s, OwnSpansInHeld
<1>11. Replaced(b, span, other)
  BY <1>1, <1>2, <1>4, <1>9 DEF Replaced
<1>12. \A c \in Contexts \ {b} : Still(c)
  BY <1>2, <1>10 DEF Still
<1> QED
  BY <1>1, <1>4, <1>6, <1>7, <1>11, <1>12 DEF ScopeStep

(* A handle moves between branches of one scope, or nothing of a scope     *)
(* changes at all.                                                         *)
LEMMA SendStep ==
  ASSUME Structured, NEW f \in Futures, NEW g \in Futures, NEW span \in held[f],
         Home[g] = Home[f], SendSpan(f, g, span)
  PROVE  Owned' /\ Unique' /\ \A c \in Contexts : ScopeStep(c)
<1>t. held \in [Futures -> SUBSET Spans]
  BY StructuredTypes DEF Structured
<1>o. \A e \in Futures : \A s \in held[e] : s.ctx = Home[e] /\ phase[Home[e]] = "working"
  BY DEF Structured, Owned
<1>u. \A e, h \in Futures : \A s \in held[e], u \in held[h] :
        (s.ctx = u.ctx /\ s.id = u.id) => (e = h /\ s = u)
  BY DEF Structured, Unique
<1>1. UNCHANGED <<phase, nextSeq, spanStack, finishedSpans>> /\ f # g
  BY DEF SendSpan
<1>2. \A h \in Futures : held'[h] = IF h = f THEN held[h] \ {span}
                                   ELSE IF h = g THEN held[h] \cup {span} ELSE held[h]
  BY <1>t, <1>1 DEF SendSpan
<1>3. Owned'
  <2> SUFFICES ASSUME NEW h \in Futures, NEW s \in held'[h]
               PROVE  s.ctx = Home[h] /\ phase'[Home[h]] = "working"
    BY DEF Owned
  <2>1. s \in held[h] \/ (h = g /\ s = span)
    BY <1>2
  <2> QED
    BY <1>o, <1>1, <2>1
<1>4. Unique'
  <2> SUFFICES ASSUME NEW i \in Futures, NEW h \in Futures, NEW s \in held'[i], NEW u \in held'[h],
                      s.ctx = u.ctx, s.id = u.id
               PROVE  i = h /\ s = u
    BY DEF Unique
  <2>1. (s \in held[i] \/ (i = g /\ s = span)) /\ (u \in held[h] \/ (h = g /\ u = span))
    BY <1>2
  <2>2. (i = f => s # span) /\ (h = f => u # span)
    BY <1>2
  <2> QED
    BY <1>u, <1>1, <2>1, <2>2
<1>5. \A c : SpansIn(held', c) = SpansIn(held, c)
  <2>1. \A h \in Futures : \A s \in held[h] : \E j \in Futures : s \in held'[j]
    BY <1>1, <1>2
  <2>2. \A h \in Futures : \A s \in held'[h] : \E j \in Futures : s \in held[j]
    BY <1>1, <1>2
  <2>3. UNION {held'[h] : h \in Futures} = UNION {held[h] : h \in Futures}
    BY <2>1, <2>2
  <2> QED
    BY <2>3 DEF SpansIn
<1>6. \A c \in Contexts : OwnSpans(c)' = OwnSpans(c)
  BY <1>5, OwnSpansInHeld
<1> QED
  BY <1>1, <1>3, <1>4, <1>6 DEF ScopeStep, Still

LEMMA QuietStep ==
  ASSUME Structured, UNCHANGED <<phase, nextSeq, spanStack, finishedSpans, held>>
  PROVE  Owned' /\ Unique' /\ \A c \in Contexts : ScopeStep(c)
<1>1. \A c \in Contexts : OwnSpans(c)' = OwnSpans(c)
  BY DEF OwnSpans, HeldSpans
<1> QED
  BY <1>1 DEF Structured, Owned, Unique, ScopeStep, Still

LEMMA StructuredStep ==
  ASSUME Structured, [StructuredNext]_vars
  PROVE  Owned' /\ Unique' /\ \A c \in Contexts : ScopeStep(c)
<1> DEFINE Goal == Owned' /\ Unique' /\ \A c \in Contexts : ScopeStep(c)
<1> SUFFICES Goal
  OBVIOUS
<1>1. ASSUME NEW c \in Contexts, AsyncEnter(c) \/ LeaveScope(c) PROVE Goal
  BY <1>1, EnterStep, LeaveStep
<1>2. ASSUME NEW f \in Futures, Create(f) PROVE Goal
  BY <1>2, CreateStep
<1>3. ASSUME NEW f \in Futures, ChangeTraceId(f) PROVE Goal
  <2>1. UNCHANGED <<phase, nextSeq, spanStack, finishedSpans, held>>
    BY <1>3 DEF ChangeTraceId
  <2> QED
    BY <2>1, QuietStep
<1>4. ASSUME NEW f \in Futures, NEW span \in held[f],
             FinishSpan(f, span) /\ IsLastOpen(f, span)
      PROVE  Goal
  BY <1>4, FinishStep
<1>5. ASSUME NEW f \in Futures, NEW span \in held[f], EndSpan(f, span) PROVE Goal
  BY <1>5, EndStep
<1>6. ASSUME NEW f \in Futures, NEW span \in held[f], NEW g \in Futures,
             Home[g] = Home[f], SendSpan(f, g, span)
      PROVE  Goal
  BY <1>6, SendStep
<1>7. CASE UNCHANGED vars
  <2>1. UNCHANGED <<phase, nextSeq, spanStack, finishedSpans, held>>
    BY <1>7 DEF vars
  <2> QED
    BY <2>1, QuietStep
<1> HIDE DEF Goal
<1> QED
  BY <1>1, <1>2, <1>3, <1>4, <1>5, <1>6, <1>7 DEF StructuredNext

LEMMA StructuredIsCode == [StructuredNext]_vars => [Next]_vars
BY DEF StructuredNext, Next

LEMMA ScopesStaySound ==
  ASSUME Structured, TypeOK', NEW c \in Contexts, ScopeStep(c), phase'[c] = "working"
  PROVE  ScopeSound(c)'
<1> DEFINE own == OwnSpans(c)
           archived == finishedSpans[c]
           stack == spanStack[c]
           last == nextSeq[c]
           Next4 == Sound(OwnSpans(c)', finishedSpans'[c], spanStack'[c], nextSeq'[c])
           Home4 == \A s \in Range(finishedSpans'[c]) : s.ctx = c
<1> SUFFICES Next4 /\ Home4
  BY DEF ScopeSound
<1>t. /\ own \in SUBSET Spans /\ archived \in Seq(Spans) /\ stack \in Seq(Nat)
      /\ last \in Int /\ last >= -1
  BY StructuredTypes DEF Structured
<1>s. phase[c] = "working" => Sound(own, archived, stack, last) /\ \A s \in Range(archived) : s.ctx = c
  BY DEF Structured, ScopesSound, ScopeSound
<1>o. \A s \in own : s.ctx = c
  BY DEF OwnSpans
<1> HIDE DEF own, archived, stack, last
<1>1. CASE Still(c)
  BY <1>1, <1>s DEF Still, own, archived, stack, last
<1>2. CASE Entered(c)
  <2>1. Range(<<>>) = {}
    BY DEF Range
  <2> QED
    BY <1>2, <2>1, NothingSound DEF Entered
<1>3. ASSUME NEW new \in Spans, Opened(c, new) PROVE Next4 /\ Home4
  <2>1. /\ phase[c] = "working" /\ new.id = last + 1
        /\ new.parent = IF stack = <<>> THEN NoParent ELSE stack[Len(stack)]
        /\ nextSeq'[c] = last + 1 /\ spanStack'[c] = Append(stack, last + 1)
        /\ finishedSpans'[c] = archived /\ OwnSpans(c)' = own \cup {new}
    BY <1>3 DEF Opened, ParentSpanId, own, archived, stack, last
  <2>2. Sound(own \cup {new}, archived, Append(stack, last + 1), last + 1)
    BY <1>t, <1>s, <2>1, SoundOpened
  <2> QED
    BY <1>s, <2>1, <2>2
<1>4. ASSUME NEW span \in Spans, NEW other \in Spans, Replaced(c, span, other)
      PROVE  Next4 /\ Home4
  <2>1. /\ phase[c] = "working" /\ span \in own /\ SameIdentity(other, span)
        /\ nextSeq'[c] = last /\ spanStack'[c] = stack /\ finishedSpans'[c] = archived
        /\ OwnSpans(c)' = (own \ {span}) \cup {other}
    BY <1>4 DEF Replaced, own, archived, stack, last
  <2>2. \A s \in own : s.id = span.id => s = span
    BY <1>o, <2>1 DEF Structured, Unique, own, OwnSpans, HeldSpans
  <2>3. Sound((own \ {span}) \cup {other}, archived, stack, last)
    BY <1>t, <1>s, <2>1, <2>2, SoundReplaced
  <2> QED
    BY <1>s, <2>1, <2>3
<1>5. ASSUME NEW span \in Spans, NEW done \in Spans, Closed(c, span, done)
      PROVE  Next4 /\ Home4
  <2>0. phase \in [Contexts -> Phases]
    BY StructuredTypes DEF Structured
  <2>1. span.id # 0
    BY <1>5, <2>0 DEF Closed, Report
  <2>2. /\ phase[c] = "working" /\ span \in own /\ SameIdentity(done, span)
        /\ 0 \notin Times => IsEnded(done)
        /\ nextSeq'[c] = last /\ spanStack'[c] = Pop(stack)
        /\ finishedSpans'[c] = Append(archived, done)
        /\ OwnSpans(c)' = own \ {span}
    BY <1>5, <2>1 DEF Closed, own, archived, stack, last
  <2>3. Sound(own \ {span}, Append(archived, done), Pop(stack), last)
    BY <1>t, <1>s, <2>1, <2>2, SoundFinished
  <2>4. done.ctx = c /\ Range(Append(archived, done)) = Range(archived) \cup {done}
    BY <1>t, <1>o, <2>2, RangeAppend DEF SameIdentity
  <2> QED
    BY <1>s, <2>2, <2>3, <2>4
<1> HIDE DEF Next4, Home4
<1> QED
  BY <1>1, <1>2, <1>3, <1>4, <1>5 DEF ScopeStep, Left

-----------------------------------------------------------------------------
(* The theorems.                                                           *)

LEMMA InitStructured == Init => Structured
<1> SUFFICES ASSUME Init PROVE Structured
  OBVIOUS
<1>1. TypeOK
  BY InitTypeOK
<1>2. Owned /\ Unique /\ ScopesSound /\ FreshScopes
  BY DEF Init, Owned, Unique, ScopesSound, FreshScopes
<1> QED
  BY <1>1, <1>2 DEF Structured

LEMMA NextStructured == Structured /\ [StructuredNext]_vars => Structured'
<1> SUFFICES ASSUME Structured, [StructuredNext]_vars PROVE Structured'
  OBVIOUS
<1>1. [Next]_vars
  BY StructuredIsCode
<1>2. TypeOK'
  BY <1>1, NextTypeOK DEF Structured
<1>3. FreshScopes'
  BY <1>1, IdsGrow DEF Structured, FreshScopes
<1>4. Owned' /\ Unique' /\ \A c \in Contexts : ScopeStep(c)
  BY StructuredStep
<1>5. ScopesSound'
  BY <1>2, <1>4, ScopesStaySound DEF ScopesSound
<1> QED
  BY <1>2, <1>3, <1>4, <1>5 DEF Structured

(* The innermost open span is the last open one if it is the first span.   *)
LEMMA SequentialIsStructured ==
  ASSUME Structured, SequentialNext
  PROVE  StructuredNext
<1>1. ASSUME NEW c \in Contexts, AsyncEnter(c) \/ LeaveScope(c) PROVE StructuredNext
  BY <1>1 DEF StructuredNext
<1>2. ASSUME NEW f \in Futures, Create(f) PROVE StructuredNext
  BY <1>2 DEF StructuredNext
<1>3. ASSUME NEW f \in Futures, NEW span \in held[f],
             FinishSpan(f, span), span.ctx = Home[f], IsInnermost(f, span)
      PROVE  StructuredNext
  <2>1. ASSUME span.id = 0, NEW s \in HeldSpans, s.ctx = span.ctx PROVE s = span
    <3>1. PICK g \in Futures : s \in held[g]
      BY <2>1 DEF HeldSpans
    <3>2. s.id <= 0 /\ s \in Spans
      BY <1>3, <2>1, <3>1, StructuredTypes DEF Structured, IsInnermost
    <3>3. s.id = span.id
      BY <2>1, <3>2 DEF Spans
    <3> QED
      BY <2>1, <3>1, <3>3 DEF Structured, Unique
  <2>2. IsLastOpen(f, span)
    BY <1>3, <2>1 DEF IsLastOpen
  <2> QED
    BY <1>3, <2>2 DEF StructuredNext
<1>4. ASSUME NEW f \in Futures, NEW span \in held[f], EndSpan(f, span) PROVE StructuredNext
  BY <1>4 DEF StructuredNext
<1> QED
  BY <1>1, <1>2, <1>3, <1>4 DEF SequentialNext

LEMMA AlwaysStructured == StructuredSpec => []Structured
BY InitStructured, NextStructured, PTL DEF StructuredSpec

LEMMA StructuredSpecIsSpec == StructuredSpec => Spec
BY StructuredIsCode, PTL DEF StructuredSpec, Spec

(* However the branches of a scope interleave, each id that was given out  *)
(* belongs to one open span or one archived span, the stack is as high as  *)
(* there are open spans, and its bottom is the first span.                 *)
THEOREM SpansAreOpenOrArchived == StructuredSpec => []OpenOrArchived
<1>1. Structured => OpenOrArchived
  BY DEF Structured, ScopesSound, ScopeSound, Sound, OpenOrArchived
<1> QED
  BY <1>1, AlwaysStructured, PTL

-----------------------------------------------------------------------------
(* What is reported.                                                       *)

LEMMA SendingStep ==
  ASSUME Structured, [StructuredNext]_vars
  PROVE  \/ reported' = reported
         \/ \E c \in Contexts, span \in Spans, done \in Spans :
              Closed(c, span, done) /\ span.id = 0
<1>1. TypeOK /\ [Next]_vars
  BY StructuredIsCode DEF Structured
<1>2. ASSUME NEW f \in Futures, NEW first \in Spans, NEW last \in Spans, Reports(f, first, last)
      PROVE  \E c \in Contexts, span \in Spans, done \in Spans :
               Closed(c, span, done) /\ span.id = 0
  <2> DEFINE c == Home[f]
  <2>1. /\ c \in Contexts /\ Len(reported) \in Nat /\ Len(reported') = Len(reported) + 1
    BY <1>1, <1>2, ReportAppends
  <2>2. phase[c] = "working" /\ phase'[c] = "taken" /\ reported' # reported
    BY <1>1, <1>2, <2>1 DEF TypeOK, Reports, Report
  <2>3. ScopeStep(c)
    BY <2>1, StructuredStep
  <2> HIDE DEF c
  <2>4. PICK span \in Spans, done \in Spans : Closed(c, span, done)
    BY <2>2, <2>3 DEF ScopeStep, Still, Entered, Left, Opened, Replaced
  <2>5. span.id = 0
    BY <2>2, <2>4 DEF Closed
  <2> QED
    BY <2>1, <2>4, <2>5
<1> QED
  BY <1>1, <1>2, ReportingStep

(* What is sent when the first span is closed.                             *)
Sends(c, span, done) ==
  LET spans == Append(finishedSpans[c], done)
      last == reported'[Len(reported) + 1]
  IN  /\ Len(reported) \in Nat /\ Len(reported') = Len(reported) + 1
      /\ \A i \in 1..Len(reported) : reported'[i] = reported[i] /\ reported[i].ctx \in Contexts
      /\ last.ctx = c /\ last.traceId = traceId[c] /\ last.spans = spans
      /\ phase[c] = "working" /\ phase'[c] = "taken" /\ nextSeq'[c] = nextSeq[c]
      /\ OwnSpans(c) = {span} /\ SameIdentity(done, span)
      /\ Len(spans) = nextSeq[c] + 1
      /\ Ids(Range(spans)) = 0..nextSeq[c]
      /\ Range(spans) = Range(finishedSpans[c]) \cup {done}
      /\ \A s \in Range(spans) : /\ s.ctx = c
                                 /\ 0 \notin Times => IsEnded(s)
                                 /\ s.parent = NoParent <=> s.id = 0

LEMMA FirstSpanSends ==
  ASSUME Structured, NEW c \in Contexts, NEW span \in Spans, NEW done \in Spans,
         Closed(c, span, done), span.id = 0
  PROVE  Sends(c, span, done)
<1> DEFINE spans == Append(finishedSpans[c], done)
<1>t. /\ finishedSpans[c] \in Seq(Spans) /\ spanStack[c] \in Seq(Nat) /\ nextSeq[c] \in Int
      /\ OwnSpans(c) \in SUBSET Spans /\ phase \in [Contexts -> Phases]
  BY StructuredTypes DEF Structured
<1>1. /\ phase[c] = "working" /\ span \in OwnSpans(c) /\ OwnSpans(c) = {span}
      /\ SameIdentity(done, span) /\ (0 \notin Times => IsEnded(done))
      /\ nextSeq'[c] = nextSeq[c] /\ Report(c, spans)
  BY DEF Closed
<1>2. /\ Sound(OwnSpans(c), finishedSpans[c], spanStack[c], nextSeq[c])
      /\ \A s \in Range(finishedSpans[c]) : s.ctx = c
  BY <1>1 DEF Structured, ScopesSound, ScopeSound
<1>3. /\ Range(spans) = Range(finishedSpans[c]) \cup {done}
      /\ Len(spans) = nextSeq[c] + 1
      /\ Ids(Range(spans)) = 0..nextSeq[c]
      /\ \A s \in Range(spans) : 0 \notin Times => IsEnded(s)
      /\ \A s \in Range(spans) : s.parent = NoParent <=> s.id = 0
  <2>1. Completes(finishedSpans[c], done, spans, nextSeq[c])
    BY <1>t, <1>1, <1>2, SoundCompleted
  <2> QED
    BY <2>1 DEF Completes
<1>4. done.ctx = c
  BY <1>1 DEF OwnSpans, SameIdentity
<1>5. spans \in Seq(Spans)
  BY <1>t, AppendProperties
<1>6. Segment(c, spans) \in Segments /\ reported \in Seq(Segments)
  BY <1>5 DEF Structured, TypeOK, Segments, Segment
<1>7. reported' = Append(reported, Segment(c, spans)) /\ phase'[c] = "taken"
  BY <1>t, <1>1 DEF Report
<1>8. /\ Len(reported) \in Nat /\ Len(reported') = Len(reported) + 1
      /\ \A i \in 1..Len(reported) : reported'[i] = reported[i]
      /\ reported'[Len(reported) + 1] = Segment(c, spans)
  BY <1>6, <1>7, AppendProperties, LenProperties
<1>9. \A i \in 1..Len(reported) : reported[i].ctx \in Contexts
  BY ReportedType DEF Structured
<1>10. LET last == Segment(c, spans) IN
       last.ctx = c /\ last.traceId = traceId[c] /\ last.spans = spans
  BY DEF Segment
<1> HIDE DEF spans
<1>11. \A s \in Range(spans) : s.ctx = c
  BY <1>2, <1>3, <1>4
<1> QED
  BY <1>1, <1>3, <1>7, <1>8, <1>9, <1>10, <1>11 DEF Sends, spans

(* A scope without its context gives out no more ids.                      *)
LEMMA OverIsFrozen ==
  ASSUME Structured, [StructuredNext]_vars, NEW c \in Contexts, phase[c] \in Over
  PROVE  nextSeq'[c] = nextSeq[c]
BY StructuredStep DEF Over, ScopeStep, Still, Entered, Left, Opened, Replaced, Closed

(* A segment is complete, see SegmentIsComplete; last is the last id that  *)
(* was given out.                                                          *)
Complete(segment, last) ==
  /\ Len(segment.spans) = last + 1
  /\ Ids(Range(segment.spans)) = 0..last
  /\ \A s \in Range(segment.spans) :
       /\ s.ctx = segment.ctx
       /\ 0 \notin Times => IsEnded(s)
       /\ s.parent = NoParent <=> s.id = 0

SegmentsComplete ==
  \A i \in 1..Len(reported) : Complete(reported[i], nextSeq[reported[i].ctx])

LEMMA NextSegmentsComplete ==
  ASSUME Structured, ReportedOnce, SegmentsComplete, [StructuredNext]_vars
  PROVE  SegmentsComplete'
<1>1. \A i \in 1..Len(reported) :
        /\ Complete(reported[i], nextSeq[reported[i].ctx])
        /\ reported[i].ctx \in Contexts /\ phase[reported[i].ctx] \in Over
  BY ReportedType DEF Structured, SegmentsComplete, ReportedOnce, Over
<1>2. \A i \in 1..Len(reported) : Complete(reported[i], nextSeq'[reported[i].ctx])
  BY <1>1, OverIsFrozen
<1> SUFFICES \A i \in 1..Len(reported') : Complete(reported'[i], nextSeq'[reported'[i].ctx])
  BY DEF SegmentsComplete, Complete
<1>3. CASE reported' = reported
  BY <1>2, <1>3
<1>4. ASSUME NEW c \in Contexts, NEW span \in Spans, NEW done \in Spans,
             Closed(c, span, done), span.id = 0
      PROVE  \A i \in 1..Len(reported') : Complete(reported'[i], nextSeq'[reported'[i].ctx])
  <2> DEFINE n == Len(reported)
  <2>1. Sends(c, span, done)
    BY <1>4, FirstSpanSends
  <2>2. /\ n \in Nat /\ Len(reported') = n + 1
        /\ \A i \in 1..n : reported'[i] = reported[i]
    BY <2>1 DEF Sends
  <2>3. Complete(reported'[n + 1], nextSeq'[reported'[n + 1].ctx])
    <3> DEFINE last == reported'[n + 1]
               spans == Append(finishedSpans[c], done)
    <3>1. /\ last.ctx = c /\ last.spans = spans /\ nextSeq'[c] = nextSeq[c]
          /\ Len(spans) = nextSeq[c] + 1
          /\ Ids(Range(spans)) = 0..nextSeq[c]
          /\ \A s \in Range(spans) : /\ s.ctx = c
                                     /\ 0 \notin Times => IsEnded(s)
                                     /\ s.parent = NoParent <=> s.id = 0
      BY <2>1 DEF Sends
    <3> HIDE DEF last, spans
    <3>2. nextSeq'[last.ctx] = nextSeq[c] /\ last.ctx = c /\ last.spans = spans
      BY <3>1
    <3> HIDE DEF n
    <3>3. Complete(last, nextSeq'[last.ctx])
      BY <3>1, <3>2 DEF Complete
    <3> QED
      BY <3>3 DEF last, n
  <2>4. \A i \in 1..(n + 1) : i \in 1..n \/ i = n + 1
    BY <2>2
  <2> HIDE DEF n
  <2> QED
    BY <1>2, <2>2, <2>3, <2>4 DEF n
<1> QED
  BY <1>3, <1>4, SendingStep

LEMMA InitSegmentsComplete == Init => SegmentsComplete
BY EmptySeq DEF Init, SegmentsComplete

LEMMA SegmentsAlwaysComplete == StructuredSpec => []SegmentsComplete
<1>1. Structured /\ ReportedOnce /\ SegmentsComplete /\ [StructuredNext]_vars
        => SegmentsComplete'
  BY NextSegmentsComplete
<1>2. StructuredSpec => []Structured /\ []ReportedOnce
  BY AlwaysStructured, ContextReportedOnce, StructuredSpecIsSpec, PTL
<1> QED
  BY <1>1, <1>2, InitSegmentsComplete, PTL DEF StructuredSpec

(* A parent is an older span, and a segment has all ids up to the last.    *)
LEMMA NoDanglingParent ==
  ASSUME TypeOK, ParentsAreOlder, SegmentsComplete,
         NEW i \in 1..Len(reported), NEW s \in Range(reported[i].spans), s.id # 0
  PROVE  s.parent < s.id /\ s.parent \in Ids(Range(reported[i].spans))
<1> DEFINE segment == reported[i]
           last == nextSeq[segment.ctx]
<1>1. segment.ctx \in Contexts /\ segment.spans \in Seq(Spans) /\ last \in Int
  BY ReportedType DEF TypeOK
<1>2. s \in Spans /\ s \in Archived
  BY <1>1, ElementOfSeq DEF Archived, Range
<1>3. s.ctx = segment.ctx /\ s.parent # NoParent /\ Ids(Range(segment.spans)) = 0..last
  BY DEF SegmentsComplete, Complete
<1>4. s.parent < s.id /\ s.id <= last
  BY <1>2, <1>3 DEF ParentsAreOlder
<1>5. s.parent \in Nat /\ s.id \in Nat
  BY <1>2, <1>3 DEF Spans
<1> HIDE DEF last
<1>6. s.parent \in 0..last
  BY <1>1, <1>4, <1>5
<1> QED
  BY <1>3, <1>4, <1>6

(* While no clock reads a time before the epoch, a reported segment holds  *)
(* each span of its context exactly once, all ended, in one tree.          *)
THEOREM SegmentsAreComplete ==
  ASSUME 0 \notin Times
  PROVE  StructuredSpec => []SegmentIsComplete
<1>1. TypeOK /\ ParentsAreOlder /\ SegmentsComplete => SegmentIsComplete
  <2> SUFFICES ASSUME TypeOK, ParentsAreOlder, SegmentsComplete PROVE SegmentIsComplete
    OBVIOUS
  <2> QED
    BY NoDanglingParent DEF SegmentsComplete, Complete, SegmentIsComplete
<1> QED
  BY <1>1, SegmentsAlwaysComplete, StructuredSpecIsSpec, TypeCorrect, ParentLinksAreAcyclic, PTL

-----------------------------------------------------------------------------
(* Headers.                                                                *)

ExitSpanOf(h, spans) == \E s \in spans : s.id = h.spanId /\ s.kind = "exit"

(* While the scope that sent a header is traced, the header names its      *)
(* trace and an exit span that is open or archived.                        *)
HeaderSound(h) ==
  /\ phase[h.ctx] # "unentered"
  /\ phase[h.ctx] = "working" =>
       /\ h.traceId = traceId[h.ctx]
       /\ ExitSpanOf(h, OwnSpans(h.ctx) \cup Range(finishedSpans[h.ctx]))

HeadersSound == \A h \in injected : HeaderSound(h)

LEMMA TraceIsKept ==
  ASSUME Structured, [StructuredNext]_vars, NEW h \in injected, phase[h.ctx] # "unentered"
  PROVE  traceId'[h.ctx] = traceId[h.ctx]
<1> USE ContextManagerAssumption
<1>t. traceId \in [Contexts -> NewTraceIds \cup TraceIds] /\ h.ctx \in Contexts
  BY DEF Structured, TypeOK, Headers
<1>1. ASSUME NEW c \in Contexts, AsyncEnter(c) \/ LeaveScope(c)
      PROVE  traceId'[h.ctx] = traceId[h.ctx]
  BY <1>1, <1>t DEF AsyncEnter, LeaveScope
<1>2. ASSUME NEW f \in Futures, Create(f) PROVE traceId' = traceId
  BY <1>2 DEF Create, TracingEntry, TracingLocal, TracingExit, CreateSpan
<1>3. ASSUME NEW f \in Futures, ChangeTraceId(f), \A g \in injected : g.ctx # Home[f]
      PROVE  traceId'[h.ctx] = traceId[h.ctx]
  BY <1>3, <1>t DEF ChangeTraceId
<1>4. ASSUME NEW f \in Futures, NEW span \in held[f],
             \/ FinishSpan(f, span) \/ EndSpan(f, span)
             \/ \E g \in Futures : SendSpan(f, g, span)
      PROVE  traceId' = traceId
  BY <1>4 DEF FinishSpan, EndSpan, SendSpan
<1>5. CASE UNCHANGED vars
  BY <1>5 DEF vars
<1> QED
  BY <1>1, <1>2, <1>3, <1>4, <1>5 DEF StructuredNext

(* A header that a step sends names the exit span that it opens.           *)
LEMMA NewHeader ==
  ASSUME Structured, [StructuredNext]_vars, NEW h \in injected', h \notin injected
  PROVE  /\ h.ctx \in Contexts /\ phase'[h.ctx] = "working" /\ phase[h.ctx] = "working"
         /\ h.traceId = traceId'[h.ctx] /\ ExitSpanOf(h, OwnSpans(h.ctx)')
         /\ reported' = reported
<1>1. ASSUME NEW f \in Futures, TracingExit(f)
      PROVE  /\ h.ctx \in Contexts /\ phase'[h.ctx] = "working" /\ phase[h.ctx] = "working"
             /\ h.traceId = traceId'[h.ctx] /\ ExitSpanOf(h, OwnSpans(h.ctx)')
             /\ reported' = reported
  <2> DEFINE c == Home[f]
  <2>1. /\ CreateSpan(f, "exit") /\ h = Header(c) /\ c \in Contexts
    BY <1>1, ContextManagerAssumption DEF TracingExit, MayInject
  <2>2. /\ phase' = phase /\ phase[c] = "working" /\ traceId' = traceId /\ reported' = reported
    BY <2>1 DEF CreateSpan
  <2>3. PICK now \in Times : held' = [held EXCEPT ![f] = @ \cup {NewSpan(f, "exit", now)}]
    BY <2>1 DEF CreateSpan
  <2> DEFINE new == NewSpan(f, "exit", now)
  <2>4. new.kind = "exit"
    BY DEF NewSpan, Start
  <2>5. "exit" \in Kinds
    BY DEF Kinds
  <2>6. new.ctx = c /\ new.id = nextSeq[c] + 1
    BY <2>5, NewSpanType DEF Structured
  <2>7. held \in [Futures -> SUBSET Spans]
    BY StructuredTypes DEF Structured
  <2> HIDE DEF new
  <2>8. new \in held'[f]
    BY <2>3, <2>7 DEF new
  <2>9. new \in OwnSpans(c)'
    BY <2>1, <2>6, <2>8, OwnSpansAre
  <2>10. h.ctx = c /\ h.traceId = traceId[c] /\ h.spanId = nextSeq[c] + 1
    BY <2>1 DEF Header, NextSpanId
  <2>11. ExitSpanOf(h, OwnSpans(c)')
    BY <2>4, <2>6, <2>9, <2>10 DEF ExitSpanOf
  <2> HIDE DEF c
  <2> QED
    BY <2>1, <2>2, <2>10, <2>11
<1>2. ASSUME NEW c \in Contexts, AsyncEnter(c) \/ LeaveScope(c) PROVE FALSE
  BY <1>2 DEF AsyncEnter, LeaveScope
<1>3. ASSUME NEW f \in Futures, TracingEntry(f) \/ TracingLocal(f) \/ ChangeTraceId(f)
      PROVE  FALSE
  BY <1>3 DEF TracingEntry, TracingLocal, ChangeTraceId
<1>4. ASSUME NEW f \in Futures, NEW span \in held[f],
             \/ FinishSpan(f, span) \/ EndSpan(f, span)
             \/ \E g \in Futures : SendSpan(f, g, span)
      PROVE  FALSE
  BY <1>4 DEF FinishSpan, EndSpan, SendSpan
<1>5. CASE UNCHANGED vars
  BY <1>5 DEF vars
<1> QED
  BY <1>1, <1>2, <1>3, <1>4, <1>5 DEF StructuredNext, Create

LEMMA NextHeadersSound ==
  ASSUME Structured, HeadersSound, [StructuredNext]_vars
  PROVE  HeadersSound'
<1> SUFFICES ASSUME NEW h \in injected'
             PROVE  /\ phase'[h.ctx] # "unentered"
                    /\ phase'[h.ctx] = "working" =>
                         /\ h.traceId = traceId'[h.ctx]
                         /\ ExitSpanOf(h, OwnSpans(h.ctx)' \cup Range(finishedSpans'[h.ctx]))
  BY DEF HeadersSound, HeaderSound
<1> DEFINE c == h.ctx
<1>1. CASE h \notin injected
  BY <1>1, NewHeader DEF ExitSpanOf
<1>2. CASE h \in injected
  <2>1. c \in Contexts
    BY <1>2 DEF Structured, TypeOK, Headers
  <2>2. /\ phase[c] # "unentered"
        /\ phase[c] = "working" =>
             /\ h.traceId = traceId[c]
             /\ ExitSpanOf(h, OwnSpans(c) \cup Range(finishedSpans[c]))
    BY <1>2 DEF HeadersSound, HeaderSound
  <2>3. traceId'[c] = traceId[c]
    BY <1>2, <2>2, TraceIsKept
  <2>4. ScopeStep(c)
    BY <2>1, StructuredStep
  <2>t. finishedSpans[c] \in Seq(Spans) /\ phase \in [Contexts -> Phases]
    BY <2>1, StructuredTypes DEF Structured
  <2> HIDE DEF c
  <2> DEFINE Goal == /\ phase'[c] # "unentered"
                     /\ phase'[c] = "working" =>
                          ExitSpanOf(h, OwnSpans(c)' \cup Range(finishedSpans'[c]))
  <2>12. phase'[c] = "working" => phase[c] = "working"
    BY <2>2, <2>4 DEF ScopeStep, Still, Entered, Left, Opened, Replaced, Closed
  <2> SUFFICES Goal
    BY <2>2, <2>3, <2>12 DEF c
  <2>5. CASE Still(c)
    BY <2>2, <2>5 DEF Still
  <2>6. CASE Entered(c)
    BY <2>2, <2>6 DEF Entered
  <2>7. CASE Left(c)
    BY <2>7 DEF Left
  <2>8. ASSUME NEW new \in Spans, Opened(c, new) PROVE Goal
    BY <2>2, <2>8 DEF Opened, ExitSpanOf
  <2>9. ASSUME NEW span \in Spans, NEW other \in Spans, Replaced(c, span, other) PROVE Goal
    BY <2>2, <2>9 DEF Replaced, ExitSpanOf, SameIdentity
  <2>10. ASSUME NEW span \in Spans, NEW done \in Spans, Closed(c, span, done) PROVE Goal
    <3>1. CASE span.id = 0
      BY <2>1, <2>t, <2>10, <3>1 DEF Closed, Report
    <3>2. CASE span.id # 0
      <4>1. Range(Append(finishedSpans[c], done)) = Range(finishedSpans[c]) \cup {done}
        BY <2>t, RangeAppend
      <4> QED
        BY <2>2, <2>10, <3>2, <4>1 DEF Closed, ExitSpanOf, SameIdentity
    <3> QED
      BY <3>1, <3>2
  <2> HIDE DEF Goal
  <2> QED
    BY <2>4, <2>5, <2>6, <2>7, <2>8, <2>9, <2>10 DEF ScopeStep
<1> QED
  BY <1>1, <1>2

LEMMA NextHeadersResolve ==
  ASSUME Structured, ReportedOnce, HeadersSound, HeadersResolve, [StructuredNext]_vars
  PROVE  HeadersResolve'
<1>1. ASSUME NEW h \in injected', NEW i \in 1..Len(reported), reported[i].ctx = h.ctx
      PROVE  /\ reported[i].traceId = h.traceId
             /\ ExitSpanOf(h, Range(reported[i].spans))
  <2>1. phase[h.ctx] # "working"
    BY <1>1 DEF ReportedOnce
  <2>2. h \in injected
    BY <2>1, NewHeader
  <2> QED
    BY <1>1, <2>2 DEF HeadersResolve, ExitSpanOf
<1> SUFFICES ASSUME NEW h \in injected', NEW i \in 1..Len(reported'), reported'[i].ctx = h.ctx
             PROVE  /\ reported'[i].traceId = h.traceId
                    /\ ExitSpanOf(h, Range(reported'[i].spans))
  BY DEF HeadersResolve, ExitSpanOf
<1>2. CASE reported' = reported
  BY <1>1, <1>2
<1>3. ASSUME NEW c \in Contexts, NEW span \in Spans, NEW done \in Spans,
             Closed(c, span, done), span.id = 0
      PROVE  /\ reported'[i].traceId = h.traceId
             /\ ExitSpanOf(h, Range(reported'[i].spans))
  <2> DEFINE n == Len(reported)
             last == reported'[n + 1]
  <2>1. Sends(c, span, done)
    BY <1>3, FirstSpanSends
  <2>2. /\ n \in Nat /\ Len(reported') = n + 1
        /\ \A j \in 1..n : reported'[j] = reported[j]
        /\ last.ctx = c /\ last.traceId = traceId[c] /\ phase[c] = "working"
        /\ Range(last.spans) = Range(finishedSpans[c]) \cup {done}
        /\ OwnSpans(c) = {span} /\ SameIdentity(done, span)
    BY <2>1 DEF Sends
  <2> HIDE DEF last, n
  <2>3. CASE i \in 1..n
    BY <1>1, <2>2, <2>3 DEF n
  <2>4. CASE i = n + 1
    <3>1. h.ctx = c /\ reported'[i] = last
      BY <2>2, <2>4 DEF last
    <3>2. h \in injected
      <4>1. reported' # reported
        BY <2>2 DEF n
      <4> QED
        BY <4>1, NewHeader
    <3>3. h.traceId = traceId[c] /\ ExitSpanOf(h, OwnSpans(c) \cup Range(finishedSpans[c]))
      BY <2>2, <3>1, <3>2 DEF HeadersSound, HeaderSound
    <3>4. ExitSpanOf(h, Range(last.spans))
      BY <2>2, <3>3 DEF ExitSpanOf, SameIdentity
    <3> QED
      BY <2>2, <3>1, <3>3, <3>4
  <2> QED
    BY <2>2, <2>3, <2>4
<1> QED
  BY <1>2, <1>3, SendingStep

(* Whoever receives a header can resolve it: when the segment it names is  *)
(* reported, it has that trace id and an exit span with that id.           *)
THEOREM HeadersAlwaysResolve == StructuredSpec => []HeadersResolve
<1>1. Init => HeadersSound /\ HeadersResolve
  BY DEF Init, HeadersSound, HeadersResolve
<1>2. Structured /\ HeadersSound /\ [StructuredNext]_vars => HeadersSound'
  BY NextHeadersSound
<1>3. Structured /\ ReportedOnce /\ HeadersSound /\ HeadersResolve /\ [StructuredNext]_vars
        => HeadersResolve'
  BY NextHeadersResolve
<1>4. StructuredSpec => []Structured /\ []ReportedOnce
  BY AlwaysStructured, ContextReportedOnce, StructuredSpecIsSpec, PTL
<1> QED
  BY <1>1, <1>2, <1>3, <1>4, PTL DEF StructuredSpec
=============================================================================
