--------------------------- MODULE AuditWriterProofs ---------------------------
(***************************************************************************)
(* Theorems about the audit writer, for any number of requests, any        *)
(* buffer and any batch size.                                              *)
(*                                                                         *)
(* Collecting says what each point of the writer knows of the batch, and   *)
(* Stops what main, the writer and the handlers know of each other      *)
(* while the process stops.  A step either leaves the waiting records      *)
(* alone, or accepts, drops or settles some (WaitingSteps), which keeps    *)
(* every record accounted for and is all that AuditLog allows.             *)
(***************************************************************************)
EXTENDS AuditWriter, SequenceTheorems, TLAPS

\* A batch is full or has something to flush exactly where the writer flushes.
Collecting ==
  /\ writer \in {"select", "purge", "drain"} => Len(batch) < BatchSize
  /\ writer \in {"insert", "transaction"} => batch # <<>>
  /\ writer = "stopped" => batch = <<>>

\* Once done is closed nobody records any more, so a channel found empty while
\* draining stays empty; and Close only returns on time after the writer.
Stops ==
  /\ done => /\ main \notin {"serving", "shutdown"}
             /\ \A r \in Requests : handler[r] # "handling"
  /\ "drain" \in {writer, resume} => done
  /\ "stopped" \in {writer, resume} => done /\ ch = <<>>
  /\ main \in {"closing", "closed"} /\ ~gaveUp => writer = "stopped"
  /\ exit = "clean" /\ ~gaveUp => writer = "stopped"
  /\ StoreOutlivesWriter

Typed == TypeOK /\ Collecting

------------------------------------------------------------------------------
(* Sequences and the sets of their elements.                                *)

LEMMA MembersOf ==
  ASSUME NEW S, NEW s \in Seq(S)
  PROVE  \A x : x \in ToSet(s) <=> \E i \in 1..Len(s) : s[i] = x
BY LenProperties DEF ToSet

LEMMA InjectiveIf ==
  ASSUME NEW S, NEW s \in Seq(S)
  PROVE  IsInjective(s) <=> \A i, j \in 1..Len(s) : s[i] = s[j] => i = j
BY LenProperties DEF IsInjective

LEMMA EmptyFacts == ToSet(<<>>) = {} /\ IsInjective(<<>>)
BY DEF ToSet, IsInjective

LEMMA AppendFacts ==
  ASSUME NEW S, NEW s \in Seq(S), NEW x \in S, NEW n, n = Append(s, x)
  PROVE  /\ n \in Seq(S) /\ Len(n) = Len(s) + 1
         /\ \A y : y \in ToSet(n) <=> y \in ToSet(s) \/ y = x
         /\ IsInjective(s) /\ x \notin ToSet(s) => IsInjective(n)
<1>1. /\ n \in Seq(S) /\ Len(n) = Len(s) + 1 /\ Len(s) \in Nat
      /\ \A i \in 1..Len(s) : n[i] = s[i]
      /\ n[Len(s) + 1] = x
  BY AppendProperties, LenProperties
<1>2. \A i \in 1..(Len(s) + 1) : i \in 1..Len(s) \/ i = Len(s) + 1
  BY <1>1
<1>3. /\ \A y : y \in ToSet(s) <=> \E i \in 1..Len(s) : s[i] = y
      /\ \A y : y \in ToSet(n) <=> \E i \in 1..(Len(s) + 1) : n[i] = y
  <2>1. \A y : y \in ToSet(s) <=> \E i \in 1..Len(s) : s[i] = y
    BY MembersOf
  <2>2. \A y : y \in ToSet(n) <=> \E i \in 1..Len(n) : n[i] = y
    BY <1>1, MembersOf
  <2> QED BY <1>1, <2>1, <2>2
<1>4. \A y : y \in ToSet(n) <=> y \in ToSet(s) \/ y = x
  BY <1>1, <1>2, <1>3
<1>5. ASSUME IsInjective(s), x \notin ToSet(s)
      PROVE  IsInjective(n)
  <2>1. \A i, j \in 1..Len(s) : s[i] = s[j] => i = j
    BY <1>5, InjectiveIf
  <2>2. ASSUME NEW i \in 1..(Len(s) + 1), NEW j \in 1..(Len(s) + 1), n[i] = n[j]
        PROVE  i = j
    BY <1>1, <1>2, <1>3, <1>5, <2>1, <2>2
  <2>3. \A i, j \in 1..Len(n) : n[i] = n[j] => i = j
    BY <1>1, <2>2
  <2> QED BY <1>1, <2>3, InjectiveIf
<1> QED BY <1>1, <1>4, <1>5

LEMMA ConcatFacts ==
  ASSUME NEW S, NEW s \in Seq(S), NEW t \in Seq(S), NEW n, n = s \o t
  PROVE  /\ n \in Seq(S) /\ Len(n) = Len(s) + Len(t)
         /\ \A x : x \in ToSet(n) <=> x \in ToSet(s) \/ x \in ToSet(t)
         /\ IsInjective(n) => /\ IsInjective(t)
                              /\ \A x : ~(x \in ToSet(s) /\ x \in ToSet(t))
<1>1. /\ n \in Seq(S) /\ Len(n) = Len(s) + Len(t) /\ Len(s) \in Nat /\ Len(t) \in Nat
      /\ \A i \in 1..Len(n) : n[i] = IF i <= Len(s) THEN s[i] ELSE t[i - Len(s)]
  BY ConcatProperties, LenProperties
<1>2. \A i \in 1..Len(s) : i \in 1..Len(n) /\ n[i] = s[i]
  BY <1>1
<1>3. \A i \in 1..Len(t) : Len(s) + i \in 1..Len(n) /\ n[Len(s) + i] = t[i]
  BY <1>1
<1>4. \A i \in 1..Len(n) : i \in 1..Len(s) \/ \E j \in 1..Len(t) : i = Len(s) + j
  <2> SUFFICES ASSUME NEW i \in 1..Len(n), i \notin 1..Len(s)
               PROVE  \E j \in 1..Len(t) : i = Len(s) + j
    OBVIOUS
  <2>1. i - Len(s) \in 1..Len(t) /\ i = Len(s) + (i - Len(s))
    BY <1>1
  <2> QED BY <2>1
<1>5. /\ \A x : x \in ToSet(s) <=> \E i \in 1..Len(s) : s[i] = x
      /\ \A x : x \in ToSet(t) <=> \E i \in 1..Len(t) : t[i] = x
      /\ \A x : x \in ToSet(n) <=> \E i \in 1..Len(n) : n[i] = x
  <2>1. \A x : x \in ToSet(s) <=> \E i \in 1..Len(s) : s[i] = x
    BY MembersOf
  <2>2. \A x : x \in ToSet(t) <=> \E i \in 1..Len(t) : t[i] = x
    BY MembersOf
  <2>3. \A x : x \in ToSet(n) <=> \E i \in 1..Len(n) : n[i] = x
    BY <1>1, MembersOf
  <2> QED BY <2>1, <2>2, <2>3
<1>6. ASSUME NEW x
      PROVE  x \in ToSet(n) <=> x \in ToSet(s) \/ x \in ToSet(t)
  <2>1. ASSUME NEW i \in 1..Len(n), n[i] = x
        PROVE  x \in ToSet(s) \/ x \in ToSet(t)
    BY <1>2, <1>3, <1>4, <1>5, <2>1
  <2>2. ASSUME x \in ToSet(s) PROVE x \in ToSet(n)
    BY <1>2, <1>5, <2>2
  <2>3. ASSUME x \in ToSet(t) PROVE x \in ToSet(n)
    BY <1>3, <1>5, <2>3
  <2> QED BY <1>5, <2>1, <2>2, <2>3
<1>7. ASSUME IsInjective(n)
      PROVE  IsInjective(t) /\ \A x : ~(x \in ToSet(s) /\ x \in ToSet(t))
  <2>1. \A i, j \in 1..Len(n) : n[i] = n[j] => i = j
    BY <1>1, <1>7, InjectiveIf
  <2>2. ASSUME NEW i \in 1..Len(t), NEW j \in 1..Len(t), t[i] = t[j]
        PROVE  i = j
    <3>1. Len(s) + i = Len(s) + j
      BY <1>3, <2>1, <2>2
    <3> QED BY <1>1, <3>1
  <2>3. ASSUME NEW x, NEW i \in 1..Len(s), NEW j \in 1..Len(t), s[i] = x, t[j] = x
        PROVE  FALSE
    <3>1. /\ i \in 1..Len(n) /\ n[i] = x
          /\ Len(s) + j \in 1..Len(n) /\ n[Len(s) + j] = x
      BY <1>2, <1>3, <2>3
    <3>2. i = Len(s) + j
      BY <2>1, <3>1
    <3> QED BY <1>1, <3>2
  <2>4. IsInjective(t)
    BY <2>2, InjectiveIf
  <2>5. ASSUME NEW x, x \in ToSet(s), x \in ToSet(t)
        PROVE  FALSE
    <3>1. PICK i \in 1..Len(s) : s[i] = x
      BY <1>5, <2>5
    <3>2. PICK j \in 1..Len(t) : t[j] = x
      BY <1>5, <2>5
    <3> QED BY <2>3, <3>1, <3>2
  <2>6. \A x : ~(x \in ToSet(s) /\ x \in ToSet(t))
    BY <2>5
  <2> QED BY <2>4, <2>6
<1> QED BY <1>1, <1>6, <1>7

\* Taking the head of the channel into the batch does not change the queue.
LEMMA CollectFacts ==
  ASSUME NEW S, NEW s \in Seq(S), NEW t \in Seq(S), t # <<>>
  PROVE  /\ Append(s, Head(t)) \in Seq(S) /\ Tail(t) \in Seq(S)
         /\ Len(Append(s, Head(t))) = Len(s) + 1
         /\ Len(Tail(t)) = Len(t) - 1
         /\ Append(s, Head(t)) \o Tail(t) = s \o t
<1>1. /\ Head(t) \in S /\ Tail(t) \in Seq(S) /\ Len(Tail(t)) = Len(t) - 1
      /\ \A i \in 1..Len(Tail(t)) : Tail(t)[i] = t[i + 1]
      /\ Len(s) \in Nat /\ Len(t) \in Nat \ {0}
  BY HeadTailProperties, LenProperties, EmptySeq
<1> DEFINE a == Append(s, Head(t))
           l == a \o Tail(t)
           r == s \o t
<1>2. /\ a \in Seq(S) /\ Len(a) = Len(s) + 1 /\ a[Len(s) + 1] = Head(t)
      /\ \A i \in 1..Len(s) : a[i] = s[i]
  BY <1>1, AppendProperties
<1>3. /\ l \in Seq(S) /\ Len(l) = Len(a) + Len(Tail(t))
      /\ \A i \in 1..(Len(a) + Len(Tail(t))) :
           l[i] = IF i <= Len(a) THEN a[i] ELSE Tail(t)[i - Len(a)]
  BY <1>1, <1>2, ConcatProperties
<1>4. /\ r \in Seq(S) /\ Len(r) = Len(s) + Len(t)
      /\ \A i \in 1..(Len(s) + Len(t)) : r[i] = IF i <= Len(s) THEN s[i] ELSE t[i - Len(s)]
  BY ConcatProperties
<1>5. Head(t) = t[1]
  OBVIOUS
<1> HIDE DEF a, l, r
<1>6. Len(l) = Len(r)
  BY <1>1, <1>2, <1>3, <1>4
<1>7. ASSUME NEW i \in 1..Len(l) PROVE l[i] = r[i]
  <2>1. CASE i <= Len(s)
    BY <1>1, <1>2, <1>3, <1>4, <1>6, <1>7, <2>1
  <2>2. CASE i = Len(s) + 1
    <3>1. l[i] = Head(t)
      BY <1>1, <1>2, <1>3, <1>7, <2>2
    <3>2. r[i] = t[1]
      BY <1>1, <1>4, <1>6, <1>7, <2>2
    <3> QED BY <3>1, <3>2, <1>5
  <2>3. CASE i > Len(s) + 1
    <3>1. l[i] = Tail(t)[i - (Len(s) + 1)] /\ i - (Len(s) + 1) \in 1..Len(Tail(t))
      <4>1. i \in 1..(Len(a) + Len(Tail(t))) /\ ~(i <= Len(a)) /\ Len(a) = Len(s) + 1
        BY <1>1, <1>2, <1>3, <1>7, <2>3
      <4>2. l[i] = Tail(t)[i - Len(a)]
        BY <1>3, <4>1
      <4>3. i - (Len(s) + 1) \in 1..Len(Tail(t))
        BY <1>1, <4>1
      <4> QED BY <4>1, <4>2, <4>3
    <3>2. r[i] = t[i - Len(s)]
      BY <1>1, <1>4, <1>6, <1>7, <2>3
    <3>3. Tail(t)[i - (Len(s) + 1)] = t[i - (Len(s) + 1) + 1]
      BY <1>1, <3>1
    <3>4. i - (Len(s) + 1) + 1 = i - Len(s)
      BY <1>1, <1>7
    <3> QED BY <3>1, <3>2, <3>3, <3>4
  <2> QED BY <1>1, <1>7, <2>1, <2>2, <2>3
<1>8. l = r
  BY <1>3, <1>4, <1>6, <1>7, SeqEqual
<1> QED BY <1>1, <1>2, <1>8 DEF a, l, r

LEMMA ConcatAppend ==
  ASSUME NEW S, NEW s \in Seq(S), NEW t \in Seq(S), NEW x \in S
  PROVE  s \o Append(t, x) = Append(s \o t, x)
<1>1. <<x>> \in Seq(S)
  OBVIOUS
<1>2. s \o t \in Seq(S)
  BY ConcatProperties
<1>3. Append(t, x) = t \o <<x>> /\ Append(s \o t, x) = (s \o t) \o <<x>>
  BY <1>2, AppendIsConcat
<1> QED BY <1>1, <1>3, ConcatAssociative

\* The front of a queue and what is behind it.
LEMMA SplitFacts ==
  ASSUME NEW S, NEW s \in Seq(S), NEW t \in Seq(S), s # <<>>
  PROVE  /\ SubSeq(s \o t, 1, Len(s)) = s
         /\ SubSeq(s \o t, Len(s) + 1, Len(s \o t)) = t
<1>1. Len(s) \in Nat \ {0} /\ Len(t) \in Nat /\ Len(s \o t) = Len(s) + Len(t)
  BY EmptySeq, LenProperties, ConcatProperties
<1>2. SubSeq(s \o t, 1, Len(s)) = s
  BY <1>1, SubSeqOfConcat1, SubSeqFull
<1>3. CASE t = <<>>
  BY <1>1, <1>3, SubSeqEmpty, EmptySeq
<1>4. CASE t # <<>>
  <2>1. Len(t) \in Nat \ {0}
    BY <1>4, EmptySeq
  <2>2. /\ Len(s) + 1 \in Len(s) + 1 .. Len(s) + Len(t)
        /\ Len(s) + Len(t) \in Len(s) + 1 .. Len(s) + Len(t)
    BY <1>1, <2>1
  <2>3. SubSeq(s \o t, Len(s) + 1, Len(s) + Len(t)) = SubSeq(t, Len(s) + 1 - Len(s), Len(s) + Len(t) - Len(s))
    BY <2>2, SubSeqOfConcat2
  <2>4. Len(s) + 1 - Len(s) = 1 /\ Len(s) + Len(t) - Len(s) = Len(t)
    BY <1>1
  <2> QED BY <1>1, <2>3, <2>4, SubSeqFull
<1> QED BY <1>2, <1>3, <1>4

------------------------------------------------------------------------------
(* Typed.                                                                   *)

LEMMA TypedInit == Init => Typed
<1> SUFFICES ASSUME Init PROVE Typed
  OBVIOUS
<1>1. Len(<<>>) = 0 /\ <<>> \in Seq(Requests)
  BY EmptySeq
<1>2. 0 <= BufferSize /\ 0 <= BatchSize /\ 0 < BatchSize
  BY AuditWriterAssumption
<1>3. TypeOK
  BY <1>1, <1>2 DEF Init, TypeOK, WriterPoints, MainPoints, Exits
<1>4. Collecting
  BY <1>1, <1>2 DEF Init, Collecting
<1> QED BY <1>3, <1>4 DEF Typed

LEMMA CollectTyped ==
  ASSUME Typed, NEW point \in {"select", "drain"}, Collect(point), Len(batch) < BatchSize,
         UNCHANGED <<handler, tickVars, fateVars, mainVars>>
  PROVE  Typed'
<1>1. /\ TypeOK /\ ch # <<>> /\ batch' = Append(batch, Head(ch)) /\ ch' = Tail(ch)
      /\ writer' = IF Len(batch') >= BatchSize THEN "insert" ELSE point
      /\ resume' = point
      /\ ch \in Seq(Requests) /\ batch \in Seq(Requests)
  BY DEF Typed, TypeOK, Collect
<1>2. /\ batch' \in Seq(Requests) /\ ch' \in Seq(Requests)
      /\ Len(batch') = Len(batch) + 1 /\ Len(ch') = Len(ch) - 1
      /\ Len(batch) \in Nat /\ Len(ch) \in Nat
  BY <1>1, CollectFacts, LenProperties
<1>3. Len(batch') <= BatchSize /\ Len(ch') <= BufferSize /\ BatchSize \in Nat
  BY <1>1, <1>2, AuditWriterAssumption DEF TypeOK
<1>4. batch' # <<>>
  BY <1>2, EmptySeq
<1>5. TypeOK'
  BY <1>1, <1>2, <1>3 DEF TypeOK, WriterPoints, tickVars, fateVars, mainVars
<1>6. Collecting'
  BY <1>1, <1>2, <1>3, <1>4 DEF Collecting
<1> QED BY <1>5, <1>6 DEF Typed

\* The steps of main leave the records and the writer alone.
LEMMA MainSteps ==
  ASSUME TypeOK, ListenerFails \/ Signal \/ Stopping
  PROVE  /\ UNCHANGED <<handler, ch, loopVars, tickVars, fateVars>>
         /\ main' \in MainPoints /\ exit' \in Exits
         /\ done' \in BOOLEAN /\ storeOpen' \in BOOLEAN /\ gaveUp' \in BOOLEAN
<1>1. CASE \E how \in Exits : Leave(how)
  BY <1>1 DEF Leave, TypeOK, MainPoints
<1>2. CASE Signal \/ CloseWriter \/ WriterReturned \/ CloseTimesOut \/ CloseStore
  BY <1>2 DEF Signal, CloseWriter, WriterReturned, CloseTimesOut, CloseStore, TypeOK,
              MainPoints
<1>3. ListenerFails \/ ShutdownTimesOut \/ Finish => \E how \in Exits : Leave(how)
  BY DEF ListenerFails, ShutdownTimesOut, Finish, Exits
<1> QED BY <1>1, <1>2, <1>3 DEF Stopping

LEMMA TypedStep == Typed /\ [Next]_vars => Typed'
<1> SUFFICES ASSUME Typed, [Next]_vars PROVE Typed'
  OBVIOUS
<1> USE DEF Typed
<1>1. /\ TypeOK /\ Collecting
      /\ ch \in Seq(Requests) /\ batch \in Seq(Requests)
      /\ Len(ch) \in Nat /\ Len(batch) \in Nat
      /\ <<>> \in Seq(Requests) /\ Len(<<>>) = 0
      /\ BufferSize \in Nat \ {0} /\ BatchSize \in Nat \ {0}
  BY AuditWriterAssumption, LenProperties, EmptySeq DEF TypeOK
<1>2. ASSUME NEW r \in Requests, Serve(r) PROVE Typed'
  BY <1>1, <1>2 DEF Serve, TypeOK, Collecting, loopVars, tickVars, fateVars, mainVars
<1>3. ASSUME NEW r \in Requests, Record(r) PROVE Typed'
  <2>1. /\ Append(ch, r) \in Seq(Requests) /\ Len(Append(ch, r)) = Len(ch) + 1
    BY <1>1, AppendProperties
  <2>2. ch' \in Seq(Requests) /\ Len(ch') <= BufferSize
    <3>1. CASE Len(ch) < BufferSize
      <4>1. ch' = Append(ch, r)
        BY <1>3, <3>1 DEF Record
      <4> QED BY <1>1, <2>1, <3>1, <4>1
    <3>2. CASE ~(Len(ch) < BufferSize)
      BY <1>1, <1>3, <3>2 DEF Record, TypeOK
    <3> QED BY <3>1, <3>2
  <2>3. dropped' \subseteq Requests
    BY <1>1, <1>3 DEF Record, TypeOK
  <2> QED BY <1>1, <1>3, <2>2, <2>3
          DEF Record, TypeOK, Collecting, loopVars, tickVars, mainVars
<1>4. ASSUME TakeRecord \/ DrainRecord PROVE Typed'
  <2>1. Len(batch) < BatchSize
    BY <1>1, <1>4 DEF TakeRecord, DrainRecord, At, Collecting
  <2> QED BY <1>4, <2>1, CollectTyped DEF TakeRecord, DrainRecord
<1>5. ASSUME TakeFlush \/ DrainEnds PROVE Typed'
  BY <1>1, <1>5 DEF TakeFlush, DrainEnds, Flush, At, TypeOK, Collecting, WriterPoints,
                    tickVars, fateVars, mainVars
<1>6. ASSUME TakePurge \/ TakeDone \/ BeginInsert \/ Purged PROVE Typed'
  BY <1>1, <1>6 DEF TakePurge, TakeDone, BeginInsert, Purged, At, TypeOK, Collecting,
                    WriterPoints, tickVars, fateVars, mainVars
<1>7. ASSUME Commit \/ InsertFails PROVE Typed'
  <2>1. ToSet(batch) \subseteq Requests
    BY <1>1, MembersOf, ElementOfSeq
  <2>2. written' \subseteq Requests /\ failed' \subseteq Requests
    BY <1>1, <1>7, <2>1 DEF Commit, InsertFails, TypeOK
  <2>3. Flushed
    BY <1>7 DEF Commit, InsertFails
  <2>4. TypeOK'
    BY <1>1, <2>2, <2>3 DEF Flushed, TypeOK, WriterPoints, tickVars, mainVars
  <2>5. Collecting'
    BY <1>1, <2>3 DEF Flushed, TypeOK, Collecting
  <2> QED BY <2>4, <2>5
<1>8. ASSUME FlushTick \/ PurgeTick PROVE Typed'
  BY <1>1, <1>8 DEF FlushTick, PurgeTick, TypeOK, Collecting, loopVars, fateVars, mainVars
<1>9. ASSUME ListenerFails \/ Signal \/ Stopping PROVE Typed'
  <2>1. /\ UNCHANGED <<handler, ch, loopVars, tickVars, fateVars>>
        /\ main' \in MainPoints /\ exit' \in Exits
        /\ done' \in BOOLEAN /\ storeOpen' \in BOOLEAN /\ gaveUp' \in BOOLEAN
    BY <1>9, MainSteps DEF Typed
  <2> QED BY <1>1, <2>1 DEF TypeOK, Collecting, loopVars, tickVars, fateVars
<1>10. ASSUME UNCHANGED vars PROVE Typed'
  BY <1>1, <1>10 DEF vars, TypeOK, Collecting
<1> QED BY <1>2, <1>3, <1>4, <1>5, <1>6, <1>7, <1>8, <1>9, <1>10
       DEF Next, Handlers, Writer

LEMMA TypedAlways == Spec => []Typed
BY TypedInit, TypedStep, PTL DEF Spec

\* Type correctness of the writer: neither the channel nor a batch ever
\* outgrows its bound.
THEOREM TypeCorrect == Spec => []TypeOK
<1>1. Typed => TypeOK
  BY DEF Typed
<1> QED BY <1>1, TypedAlways, PTL

------------------------------------------------------------------------------
(* Stopping.                                                                *)

LEMMA StopsInit == Init => Stops
BY DEF Init, Stops, StoreOutlivesWriter

\* The writer's own steps, for what they tell main.
LEMMA StopsWriter ==
  ASSUME Typed, Stops, Writer
  PROVE  Stops'
<1>1. UNCHANGED <<handler, mainVars>>
  BY DEF Writer, TakeRecord, TakeFlush, TakePurge, TakeDone, DrainRecord, DrainEnds,
         BeginInsert, Commit, InsertFails, Flushed, Purged
<1>2. writer # "stopped"
  BY DEF Writer, TakeRecord, TakeFlush, TakePurge, TakeDone, DrainRecord, DrainEnds,
         BeginInsert, Commit, InsertFails, Purged, At
<1>3. "drain" \in {writer', resume'} => done
  BY DEF Stops, Writer, TakeRecord, TakeFlush, TakePurge, TakeDone, DrainRecord, DrainEnds,
         BeginInsert, Commit, InsertFails, Flushed, Purged, At, Collect, Flush
<1>4. "stopped" \in {writer', resume'} => done /\ ch' = <<>>
  <2>1. CASE TakeRecord \/ DrainRecord \/ TakeFlush
    BY <2>1 DEF TakeRecord, DrainRecord, TakeFlush, Collect, Flush
  <2>2. CASE TakePurge \/ TakeDone \/ BeginInsert \/ Purged
    BY <2>2 DEF Stops, TakePurge, TakeDone, BeginInsert, Purged
  <2>3. CASE DrainEnds
    BY <2>3 DEF Stops, DrainEnds, At, Flush
  <2>4. CASE Commit \/ InsertFails
    BY <2>4 DEF Stops, Commit, InsertFails, Flushed
  <2> QED BY <2>1, <2>2, <2>3, <2>4 DEF Writer
<1>5. /\ ~(main \in {"closing", "closed"} /\ ~gaveUp)
      /\ ~(exit = "clean" /\ ~gaveUp)
      /\ ~(~storeOpen /\ ~gaveUp)
  BY <1>2 DEF Stops, StoreOutlivesWriter
<1> QED BY <1>1, <1>3, <1>4, <1>5 DEF Stops, StoreOutlivesWriter, mainVars

LEMMA StopsStep == Typed /\ Stops /\ [Next]_vars => Stops'
<1> SUFFICES ASSUME Typed, Stops, [Next]_vars PROVE Stops'
  OBVIOUS
<1>1. handler \in [Requests -> {"new", "handling", "done"}]
  BY DEF Typed, TypeOK
<1>2. ASSUME NEW r \in Requests, Serve(r) \/ Record(r) PROVE Stops'
  <2>1. ~done /\ UNCHANGED <<loopVars, mainVars>>
    BY <1>2 DEF Stops, Serve, Record
  <2> QED BY <2>1 DEF Stops, StoreOutlivesWriter, loopVars, mainVars
<1>3. CASE Writer
  BY <1>3, StopsWriter
<1>4. CASE FlushTick \/ PurgeTick
  BY <1>4 DEF FlushTick, PurgeTick, Stops, StoreOutlivesWriter, loopVars, mainVars
<1>5. CASE ListenerFails \/ Signal
  BY <1>5 DEF ListenerFails, Signal, Leave, Stops, StoreOutlivesWriter, loopVars
<1>6. CASE ShutdownTimesOut
  BY <1>6 DEF ShutdownTimesOut, Leave, Stops, StoreOutlivesWriter, loopVars
<1>7. CASE CloseWriter
  BY <1>7 DEF CloseWriter, Stops, StoreOutlivesWriter, loopVars
<1>8. CASE WriterReturned \/ CloseTimesOut \/ CloseStore
  BY <1>8 DEF WriterReturned, CloseTimesOut, CloseStore, Stops, StoreOutlivesWriter,
              loopVars
<1>9. CASE Finish
  BY <1>9 DEF Finish, Leave, Stops, StoreOutlivesWriter, loopVars
<1>10. CASE UNCHANGED vars
  BY <1>10 DEF vars, Stops, StoreOutlivesWriter
<1> QED BY <1>2, <1>3, <1>4, <1>5, <1>6, <1>7, <1>8, <1>9, <1>10
       DEF Next, Handlers, Stopping

LEMMA StopsAlways == Spec => [](Typed /\ Stops)
<1>1. Init => Typed /\ Stops
  BY TypedInit, StopsInit
<1>2. Typed /\ Stops /\ [Next]_vars => (Typed /\ Stops)'
  BY TypedStep, StopsStep
<1> QED BY <1>1, <1>2, PTL DEF Spec

\* The store is not closed under the writer but by a Close that gave up.
THEOREM StoreAlwaysOutlivesWriter == Spec => []StoreOutlivesWriter
<1>1. Typed /\ Stops => StoreOutlivesWriter
  BY DEF Stops
<1> QED BY <1>1, StopsAlways, PTL

\* After a shutdown within its deadlines nothing waits in channel or batch.
THEOREM CleanStopAlwaysLosesNothing == Spec => []CleanStopLosesNothing
<1>1. Typed /\ Stops => CleanStopLosesNothing
  <2> SUFFICES ASSUME Typed, Stops, exit = "clean", ~gaveUp PROVE Queue = <<>>
    BY DEF CleanStopLosesNothing
  <2>1. batch = <<>> /\ ch = <<>>
    BY DEF Typed, Collecting, Stops
  <2> QED BY <2>1, ConcatEmptySeq, EmptySeq DEF Queue
<1> QED BY <1>1, StopsAlways, PTL

------------------------------------------------------------------------------
(* What a step does to the waiting records.                                 *)

Finishes(r) ==
  /\ Running /\ main' = main
  /\ handler[r] = "handling" /\ handler' = [handler EXCEPT ![r] = "done"]

Accepted(r) ==
  /\ Finishes(r)
  /\ Len(ch) < BufferSize
  /\ Queue' = Append(Queue, r)
  /\ UNCHANGED fateVars

TurnedAway(r) ==
  /\ Finishes(r)
  /\ Len(ch) >= BufferSize
  /\ dropped' = dropped \cup {r}
  /\ UNCHANGED <<Queue, written, failed>>

BatchSettled ==
  /\ Running /\ main' = main
  /\ batch # <<>>
  /\ Queue' = ch
  /\ \/ written' = written \cup ToSet(batch) /\ UNCHANGED failed
     \/ failed' = failed \cup ToSet(batch) /\ UNCHANGED written
  /\ UNCHANGED <<handler, dropped>>

NothingMoved ==
  /\ \A r \in Requests : (handler'[r] = "done") = (handler[r] = "done")
  /\ main' = main \/ main # "exited"
  /\ UNCHANGED <<Queue, fateVars>>

LEMMA WaitingSteps ==
  ASSUME Typed, [Next]_vars
  PROVE  \/ \E r \in Requests : Accepted(r) \/ TurnedAway(r)
         \/ BatchSettled
         \/ NothingMoved
<1>1. /\ ch \in Seq(Requests) /\ batch \in Seq(Requests)
      /\ Len(ch) \in Nat /\ BufferSize \in Nat
      /\ handler \in [Requests -> {"new", "handling", "done"}]
  BY AuditWriterAssumption, LenProperties DEF Typed, TypeOK
<1>2. ASSUME UNCHANGED <<handler, Queue, fateVars>>, main' = main \/ main # "exited"
      PROVE  NothingMoved
  BY <1>2 DEF NothingMoved
<1>3. ASSUME NEW r \in Requests, Serve(r) PROVE NothingMoved
  <2>1. /\ \A q \in Requests : (handler'[q] = "done") = (handler[q] = "done")
        /\ UNCHANGED <<ch, loopVars, fateVars, main>>
    BY <1>1, <1>3 DEF Serve, mainVars
  <2> QED BY <2>1 DEF NothingMoved, Queue, loopVars
<1>4. ASSUME NEW r \in Requests, Record(r) PROVE Accepted(r) \/ TurnedAway(r)
  <2>1. Finishes(r) /\ UNCHANGED <<batch, written, failed>>
    BY <1>4 DEF Finishes, Record, mainVars, loopVars
  <2>2. CASE Len(ch) < BufferSize
    <3>1. ch' = Append(ch, r) /\ UNCHANGED dropped
      BY <1>4, <2>2 DEF Record
    <3>2. Queue' = Append(Queue, r)
      BY <1>1, <2>1, <3>1, ConcatAppend DEF Queue
    <3> QED BY <2>1, <2>2, <3>1, <3>2 DEF Accepted, fateVars
  <2>3. CASE ~(Len(ch) < BufferSize)
    <3>1. dropped' = dropped \cup {r} /\ UNCHANGED ch
      BY <1>4, <2>3 DEF Record
    <3>2. Len(ch) >= BufferSize
      BY <1>1, <2>3
    <3> QED BY <2>1, <3>1, <3>2 DEF TurnedAway, Queue
  <2> QED BY <2>2, <2>3
<1>5. CASE TakeRecord \/ DrainRecord
  <2>1. /\ ch # <<>> /\ batch' = Append(batch, Head(ch)) /\ ch' = Tail(ch)
        /\ UNCHANGED <<handler, fateVars, main>>
    BY <1>5 DEF TakeRecord, DrainRecord, Collect, mainVars
  <2>2. Queue' = Queue
    BY <1>1, <2>1, CollectFacts DEF Queue
  <2> QED BY <1>2, <2>1, <2>2
<1>6. CASE TakeFlush \/ DrainEnds \/ TakePurge \/ TakeDone \/ BeginInsert \/ Purged
  <2>1. UNCHANGED <<handler, ch, batch, fateVars, main>>
    BY <1>6 DEF TakeFlush, DrainEnds, TakePurge, TakeDone, BeginInsert, Purged, Flush,
                mainVars
  <2> QED BY <1>2, <2>1 DEF Queue
<1>7. CASE Commit \/ InsertFails
  <2>1. /\ batch # <<>> /\ Running
    BY <1>7 DEF Commit, InsertFails, At, Typed, Collecting
  <2>2. /\ batch' = <<>> /\ UNCHANGED <<handler, ch, dropped, main>>
        /\ \/ written' = written \cup ToSet(batch) /\ UNCHANGED failed
           \/ failed' = failed \cup ToSet(batch) /\ UNCHANGED written
    BY <1>7 DEF Commit, InsertFails, Flushed, mainVars
  <2>3. Queue' = ch
    BY <1>1, <2>2, ConcatEmptySeq DEF Queue
  <2> QED BY <2>1, <2>2, <2>3 DEF BatchSettled
<1>8. CASE FlushTick \/ PurgeTick
  <2>1. UNCHANGED <<handler, ch, batch, fateVars, main>>
    BY <1>8 DEF FlushTick, PurgeTick, loopVars, mainVars
  <2> QED BY <1>2, <2>1 DEF Queue
<1>9. CASE ListenerFails \/ Signal \/ Stopping
  <2>1. UNCHANGED <<handler, ch, batch, fateVars>>
    BY <1>9, MainSteps DEF Typed, loopVars
  <2>2. main # "exited"
    BY <1>9 DEF ListenerFails, Signal, Stopping, ShutdownTimesOut, CloseWriter,
                WriterReturned, CloseTimesOut, CloseStore, Finish
  <2> QED BY <1>2, <2>1, <2>2 DEF Queue
<1>10. CASE UNCHANGED vars
  BY <1>2, <1>10 DEF vars, Queue, fateVars
<1> QED BY <1>3, <1>4, <1>5, <1>6, <1>7, <1>8, <1>9, <1>10
       DEF Next, Handlers, Writer

------------------------------------------------------------------------------
(* Every record is in one place.                                            *)

\* Accounted, record by record.
OnePlaceEach ==
  /\ IsInjective(Queue)
  /\ \A r : r \in ToSet(Queue) \/ r \in written \/ r \in failed \/ r \in dropped
            <=> r \in Requests /\ handler[r] = "done"
  /\ \A r : /\ r \in ToSet(Queue) => r \notin written /\ r \notin failed /\ r \notin dropped
            /\ r \in written => r \notin failed /\ r \notin dropped
            /\ r \in failed => r \notin dropped

LEMMA OnePlaceAccounts == OnePlaceEach => Accounted
<1> SUFFICES ASSUME OnePlaceEach PROVE Accounted
  OBVIOUS
<1> DEFINE places == <<ToSet(Queue), written, failed, dropped>>
<1>1. /\ places[1] = ToSet(Queue) /\ places[2] = written
      /\ places[3] = failed /\ places[4] = dropped
      /\ DOMAIN places = 1..4
  OBVIOUS
<1> HIDE DEF places
<1>2. \A i \in 1..4 : i = 1 \/ i = 2 \/ i = 3 \/ i = 4
  OBVIOUS
<1>3. ToSet(places) = {places[i] : i \in 1..4}
  BY <1>1 DEF ToSet
<1>4. ASSUME NEW r
      PROVE  r \in UNION ToSet(places)
             <=> r \in ToSet(Queue) \/ r \in written \/ r \in failed \/ r \in dropped
  BY <1>1, <1>2, <1>3
<1>5. UNION ToSet(places) = {r \in Requests : handler[r] = "done"}
  BY <1>4 DEF OnePlaceEach
<1>6. ASSUME NEW i \in 1..4, NEW j \in 1..4, i # j
      PROVE  places[i] \cap places[j] = {}
  BY <1>1, <1>2, <1>6 DEF OnePlaceEach
<1>7. IsInjective(Queue)
  BY DEF OnePlaceEach
<1> QED BY <1>5, <1>6, <1>7 DEF Accounted, places

LEMMA OnePlaceInit == Init => OnePlaceEach
<1> SUFFICES ASSUME Init PROVE OnePlaceEach
  OBVIOUS
<1>1. Queue = <<>>
  BY ConcatEmptySeq, EmptySeq DEF Init, Queue
<1> QED BY <1>1, EmptyFacts DEF Init, OnePlaceEach

LEMMA OnePlaceStep == Typed /\ OnePlaceEach /\ [Next]_vars => OnePlaceEach'
<1> SUFFICES ASSUME Typed, OnePlaceEach, [Next]_vars PROVE OnePlaceEach'
  OBVIOUS
<1>1. /\ ch \in Seq(Requests) /\ batch \in Seq(Requests) /\ Queue \in Seq(Requests)
      /\ handler \in [Requests -> {"new", "handling", "done"}]
  BY ConcatFacts DEF Typed, TypeOK, Queue
<1>2. ASSUME NEW r \in Requests, Finishes(r)
      PROVE  /\ \A q : q \in Requests /\ handler'[q] = "done"
                       <=> (q \in Requests /\ handler[q] = "done") \/ q = r
             /\ r \notin ToSet(Queue) /\ r \notin written /\ r \notin failed /\ r \notin dropped
  BY <1>1, <1>2 DEF Finishes, OnePlaceEach
<1>3. ASSUME NEW r \in Requests, Accepted(r) PROVE OnePlaceEach'
  <2>1. /\ \A q : q \in ToSet(Queue') <=> q \in ToSet(Queue) \/ q = r
        /\ IsInjective(Queue')
    BY <1>1, <1>2, <1>3, AppendFacts DEF Accepted, OnePlaceEach
  <2>2. UNCHANGED <<written, failed, dropped>> /\ Finishes(r)
    BY <1>3 DEF Accepted, fateVars
  <2> QED BY <1>2, <2>1, <2>2 DEF OnePlaceEach
<1>4. ASSUME NEW r \in Requests, TurnedAway(r) PROVE OnePlaceEach'
  <2>1. /\ UNCHANGED <<Queue, written, failed>> /\ dropped' = dropped \cup {r}
        /\ Finishes(r)
    BY <1>4 DEF TurnedAway
  <2> QED BY <1>2, <2>1 DEF OnePlaceEach
<1>5. CASE BatchSettled
  <2>1. /\ \A q : q \in ToSet(Queue) <=> q \in ToSet(batch) \/ q \in ToSet(ch)
        /\ IsInjective(ch) /\ \A q : ~(q \in ToSet(batch) /\ q \in ToSet(ch))
    BY <1>1, ConcatFacts DEF Queue, OnePlaceEach
  <2>2. /\ Queue' = ch /\ UNCHANGED <<handler, dropped>>
        /\ \/ written' = written \cup ToSet(batch) /\ UNCHANGED failed
           \/ failed' = failed \cup ToSet(batch) /\ UNCHANGED written
    BY <1>5 DEF BatchSettled
  <2> QED BY <2>1, <2>2 DEF OnePlaceEach
<1>6. CASE NothingMoved
  BY <1>6 DEF NothingMoved, OnePlaceEach, fateVars
<1> QED BY <1>3, <1>4, <1>5, <1>6, WaitingSteps

LEMMA OnePlaceAlways == Spec => [](Typed /\ OnePlaceEach)
<1>1. Init => Typed /\ OnePlaceEach
  BY TypedInit, OnePlaceInit
<1>2. Typed /\ OnePlaceEach /\ [Next]_vars => (Typed /\ OnePlaceEach)'
  BY TypedStep, OnePlaceStep
<1> QED BY <1>1, <1>2, PTL DEF Spec

\* Every record of a finished request waits, is written, failed or was dropped,
\* and only one of these.
THEOREM AlwaysAccounted == Spec => []Accounted
<1>1. Typed /\ OnePlaceEach => Accounted
  BY OnePlaceAccounts
<1> QED BY <1>1, OnePlaceAlways, PTL

------------------------------------------------------------------------------
(* The audit trail.                                                         *)

\* A step that accepts, drops or settles is such a step of the trail.
LEMMA TrailStep ==
  ASSUME Typed, OnePlaceEach, [Next]_vars
  PROVE  [AL!Next]_(AL!vars)
<1>1. /\ ch \in Seq(Requests) /\ batch \in Seq(Requests)
      /\ Len(ch) \in Nat /\ Len(batch) \in Nat
      /\ Len(batch) <= BatchSize
      /\ BufferSize \in Nat \ {0} /\ BatchSize \in Nat \ {0}
  BY AuditWriterAssumption, LenProperties DEF Typed, TypeOK
<1>2. Queue \in Seq(Requests) /\ Len(Queue) = Len(batch) + Len(ch)
  BY <1>1, ConcatFacts DEF Queue
<1>3. ASSUME NEW r \in Requests, Finishes(r)
      PROVE  AL!New(r) /\ Running /\ Running' = Running
  <2>1. handler[r] # "done"
    BY <1>3 DEF Finishes
  <2>2. r \notin ToSet(Queue) \cup written \cup failed \cup dropped
    BY <2>1 DEF OnePlaceEach
  <2>3. AL!New(r)
    BY <2>2 DEF AL!New, AL!ToSet, ToSet
  <2> QED BY <1>3, <2>3 DEF Finishes, Running
<1>4. ASSUME NEW r \in Requests, Accepted(r) PROVE AL!Next
  <2>1. AL!Accept(r)
    BY <1>1, <1>2, <1>3, <1>4 DEF Accepted, AL!Accept, fateVars
  <2> QED BY <1>3, <1>4, <2>1 DEF AL!Next, Accepted
<1>5. ASSUME NEW r \in Requests, TurnedAway(r) PROVE AL!Next
  <2>1. AL!Drop(r)
    BY <1>1, <1>2, <1>3, <1>5 DEF TurnedAway, AL!Drop
  <2> QED BY <1>3, <1>5, <2>1 DEF AL!Next, TurnedAway
<1>6. CASE BatchSettled
  <2>1. /\ SubSeq(Queue, 1, Len(batch)) = batch
        /\ SubSeq(Queue, Len(batch) + 1, Len(Queue)) = ch
    BY <1>1, <1>6, SplitFacts DEF Queue, BatchSettled
  <2>2. Len(batch) \in 1..BatchSize /\ Len(batch) <= Len(Queue)
    BY <1>1, <1>2, <1>6, EmptySeq DEF BatchSettled
  <2>3. Running /\ Running' = Running
    BY <1>6 DEF BatchSettled, Running
  <2>4. AL!Settle(Len(batch))
    <3>1. AL!ToSet(SubSeq(Queue, 1, Len(batch))) = ToSet(batch)
      BY <2>1 DEF AL!ToSet, ToSet
    <3> QED BY <1>6, <2>1, <2>2, <2>3, <3>1 DEF AL!Settle, BatchSettled
  <2> QED BY <2>2, <2>3, <2>4 DEF AL!Next
<1>7. CASE NothingMoved
  <2>1. UNCHANGED <<Queue, written, failed, dropped>>
    BY <1>7 DEF NothingMoved, fateVars
  <2>2. CASE Running' = Running
    BY <2>1, <2>2 DEF AL!vars
  <2>3. CASE Running' # Running
    <3>1. Running /\ Running' = FALSE
      BY <1>7, <2>3 DEF NothingMoved, Running
    <3> QED BY <2>1, <3>1 DEF AL!Next, AL!Stop
  <2> QED BY <2>2, <2>3
<1> QED BY <1>4, <1>5, <1>6, <1>7, WaitingSteps

\* The writer implements the trail: bounded, first in first out, all or nothing
\* by batch, dropping only before a full buffer.
THEOREM AlwaysAnAuditLog == Spec => ImplementsAuditLog
<1>1. Init => AL!Init
  <2> SUFFICES ASSUME Init PROVE AL!Init
    OBVIOUS
  <2>1. Queue = <<>>
    BY ConcatEmptySeq, EmptySeq DEF Init, Queue
  <2> QED BY <2>1 DEF Init, AL!Init, Running
<1>2. Typed /\ OnePlaceEach /\ [Next]_vars => [AL!Next]_(AL!vars)
  BY TrailStep
<1> QED BY <1>1, <1>2, OnePlaceAlways, PTL DEF Spec, ImplementsAuditLog, AL!Spec
================================================================================
