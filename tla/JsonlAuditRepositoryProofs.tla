--------------------- MODULE JsonlAuditRepositoryProofs ---------------------
(***************************************************************************)
(* The repository's inductive invariant, and that each step of append()    *)
(* keeps it, whoever calls it.                                             *)
(***************************************************************************)
EXTENDS JsonlAuditRepository, SequenceTheorems, TLAPS

InCriticalSection(t) == append_pc[t] \in {"line", "newline", "flush", "check"}

(* The mutex is held by exactly the thread that is between lock and return. *)
AuditMutexHeld == \A t \in Threads : InCriticalSection(t) <=> audit_mutex = t

(* While the stream is good, the buffer holds what the holder has inserted. *)
BufferIsHolders ==
  stream = "good" =>
    /\ audit_mutex = NoThread => buffer = <<>>
    /\ \A t \in Threads :
         /\ append_pc[t] \in {"line", "check"} => buffer = <<>>
         /\ append_pc[t] = "newline" => buffer = <<Line(append_record[t])>>
         /\ append_pc[t] = "flush" => buffer = <<Line(append_record[t]), Newline>>

(* A good stream has written whole lines only. *)
TailIsClean ==
  (stream = "good" /\ Len(file) > opened_at) => file[Len(file)] = Newline

(* What a thread knows on its way out of append(). *)
CallersKnow ==
  \A t \in Threads :
    /\ append_pc[t] # "idle" => append_record[t] \in submitted
    /\ (append_pc[t] = "check" /\ stream = "good") => HasLine(append_record[t])
    /\ (append_pc[t] = "returned" /\ append_result[t] = "Ok") =>
         append_record[t] \in acknowledged

AuditInv ==
  /\ AuditTypeOK
  /\ AuditMutexHeld
  /\ BufferIsHolders
  /\ TailIsClean
  /\ CallersKnow
  /\ AcknowledgedIsWhole
  /\ TornTailStaysLast

----------------------------------------------------------------------------
(* Growing the set of records keeps a sequence of tokens one. *)
LEMMA TokensMonotone ==
  ASSUME NEW R, NEW Q, R \subseteq Q, NEW s \in Seq(Tokens(R))
  PROVE  s \in Seq(Tokens(Q))
<1>1. Tokens(R) \subseteq Tokens(Q)
  BY DEF Tokens
<1> QED
  BY <1>1

(* The file only grows at its end, so a line that is there stays there. *)
LEMMA LinesStay ==
  ASSUME NEW S, file \in Seq(S), NEW s \in Seq(S), file' = file \o s, NEW r
  PROVE  HasLine(r) => HasLine(r)'
BY DEF HasLine, Line, Newline, NoRecord

(* The prefixes of length 0 and 1. *)
LEMMA ShortPrefixes ==
  ASSUME NEW S, NEW s \in Seq(S), Len(s) >= 1
  PROVE  SubSeq(s, 1, 0) = <<>> /\ SubSeq(s, 1, 1) = <<s[1]>>
<1>1. SubSeq(s, 1, 0) = <<>>
  BY SubSeqEmpty
<1>2. /\ SubSeq(s, 1, 1) \in Seq(S)
      /\ Len(SubSeq(s, 1, 1)) = 1
      /\ SubSeq(s, 1, 1)[1] = s[1]
  <2>1. \A i \in 1 .. 1 : s[i] \in S
    OBVIOUS
  <2> QED
    BY <2>1, SubSeqProperties
<1>3. SubSeq(s, 1, 1) = <<s[1]>>
  <2>1. s[1] \in S
    OBVIOUS
  <2>2. ASSUME NEW x \in Seq(S), Len(x) = 1, x[1] = s[1]
        PROVE  x = <<s[1]>>
    <3>1. <<s[1]>> \in Seq(S) /\ Len(<<s[1]>>) = 1 /\ <<s[1]>>[1] = s[1]
      BY <2>1
    <3>2. \A i \in 1 .. Len(x) : i = 1
      BY <2>2
    <3>3. \A i \in 1 .. Len(x) : x[i] = <<s[1]>>[i]
      BY <2>2, <3>1, <3>2, Zenon
    <3> QED
      BY <2>2, <3>1, <3>3, SeqEqual
  <2> QED
    BY <1>2, <2>2
<1> QED
  BY <1>1, <1>3

(* Where two more elements of a sequence end up. *)
LEMMA ConcatTwo ==
  ASSUME NEW T, NEW f \in Seq(T), NEW b \in Seq(T), Len(b) = 2
  PROVE  /\ Len(f \o b) = Len(f) + 2 /\ Len(f) \in Nat
         /\ (f \o b)[Len(f) + 1] = b[1] /\ (f \o b)[Len(f) + 2] = b[2]
<1>1. Len(f) \in Nat
  OBVIOUS
<1>2. /\ Len(f) + 1 \in 1 .. Len(f) + 2 /\ ~(Len(f) + 1 <= Len(f))
      /\ Len(f) + 2 \in 1 .. Len(f) + 2 /\ ~(Len(f) + 2 <= Len(f))
      /\ (Len(f) + 1) - Len(f) = 1 /\ (Len(f) + 2) - Len(f) = 2
  BY <1>1
<1>3. /\ Len(f \o b) = Len(f) + 2
      /\ \A i \in 1 .. Len(f) + 2 :
           (f \o b)[i] = IF i <= Len(f) THEN f[i] ELSE b[i - Len(f)]
  <2>1. /\ Len(f \o b) = Len(f) + Len(b)
        /\ \A i \in 1 .. Len(f) + Len(b) :
             (f \o b)[i] = IF i <= Len(f) THEN f[i] ELSE b[i - Len(f)]
    BY ConcatProperties, Zenon
  <2>2. Len(b) = 2
    OBVIOUS
  <2> QED
    BY <2>1, <2>2, Zenon
<1> QED
  BY <1>1, <1>2, <1>3, Zenon

(* What a failed write of one line and its newline can leave. *)
LEMMA PartialWriteOfALine ==
  ASSUME NEW r, NEW part \in PartialWrites(<<Line(r), Newline>>)
  PROVE  part \in {<<>>, <<Line(r)>>, <<Fragment(r)>>}
<1> DEFINE b == <<Line(r), Newline>>
<1>1. Len(b) = 2 /\ b[1].part = "line" /\ b[2].part = "newline" /\ b[1].record = r
  BY DEF Line, Newline
<1>2. SubSeq(b, 1, 0) = <<>> /\ SubSeq(b, 1, 1) = <<Line(r)>>
  <2>1. b \in Seq({Line(r), Newline}) /\ b[1] = Line(r)
    OBVIOUS
  <2> QED
    <3> HIDE DEF b
    <3> QED
      BY <1>1, <2>1, ShortPrefixes
<1>3. CASE \E n \in 0 .. 1 : part = SubSeq(b, 1, n)
  <2>1. PICK n \in 0 .. 1 : part = SubSeq(b, 1, n)
    BY <1>3
  <2>2. n = 0 \/ n = 1
    OBVIOUS
  <2> QED
    BY <1>2, <2>1, <2>2
<1>4. CASE \E n \in 0 .. 1 : b[n + 1].part = "line"
                           /\ part = SubSeq(b, 1, n) \o <<Fragment(b[n + 1].record)>>
  <2>1. PICK n \in 0 .. 1 : b[n + 1].part = "line"
                           /\ part = SubSeq(b, 1, n) \o <<Fragment(b[n + 1].record)>>
    BY <1>4
  <2>2. n = 0
    <3>1. n = 1 => n + 1 = 2
      OBVIOUS
    <3>2. b[2].part # "line"
      BY <1>1
    <3> HIDE DEF b
    <3>3. n # 1
      BY <2>1, <3>1, <3>2
    <3> QED
      BY <3>3
  <2>3. part = <<>> \o <<Fragment(r)>>
    <3>1. n + 1 = 1
      BY <2>2
    <3> HIDE DEF b
    <3> QED
      BY <1>1, <1>2, <2>1, <2>2, <3>1, Zenon
  <2> QED
    BY <2>3
<1>5. part \in PartialWrites(b)
  OBVIOUS
<1>6. \/ \E n \in 0 .. 1 : part = SubSeq(b, 1, n)
      \/ \E n \in 0 .. 1 : b[n + 1].part = "line"
                          /\ part = SubSeq(b, 1, n) \o <<Fragment(b[n + 1].record)>>
  <2> HIDE DEF b
  <2>1. Len(b) - 1 = 1
    BY <1>1
  <2> QED
    BY <1>5, <2>1, Zenon DEF PartialWrites
<1> QED
  BY <1>3, <1>4, <1>6

(* An opened or unopenable empty file satisfies the invariant. *)
LEMMA AuditInitInv == AuditInit => AuditInv
BY ThreadsAssumption
DEF AuditInit, AuditInv, AuditTypeOK, AuditMutexHeld, BufferIsHolders, TailIsClean,
    CallersKnow, AcknowledgedIsWhole, TornTailStaysLast, InCriticalSection, Tokens,
    StreamStates, AppendPcs, AppendResults

(* A step that leaves the file, the stream and the acknowledgements alone   *)
(* keeps what is said of them only.                                         *)
LEMMA FileFactsStay ==
  ASSUME AuditInv, UNCHANGED <<file, stream, opened_at, acknowledged>>
  PROVE  TailIsClean' /\ AcknowledgedIsWhole' /\ TornTailStaysLast'
BY DEF AuditInv, TailIsClean, AcknowledgedIsWhole, TornTailStaysLast, HasLine

(* Steps of the rest of the service keep the invariant. *)
LEMMA StutterInv == AuditInv /\ UNCHANGED auditVars => AuditInv'
BY DEF auditVars, AuditInv, AuditTypeOK, AuditMutexHeld, BufferIsHolders, TailIsClean,
       CallersKnow, AcknowledgedIsWhole, TornTailStaysLast, InCriticalSection, HasLine

(* append() is entered, by either of its first steps. *)
LEMMA StartInv ==
  ASSUME AuditInv, NEW t \in Threads, NEW r, StartAppend(t, r) \/ AppendThrows(t, r)
  PROVE  AuditInv'
<1> DEFINE to == IF StartAppend(t, r) THEN "lock" ELSE "returned"
<1>1. /\ append_pc[t] = "idle"
      /\ append_record' = [append_record EXCEPT ![t] = r]
      /\ submitted' = submitted \cup {r}
      /\ UNCHANGED <<file, buffer, stream, opened_at, audit_mutex, acknowledged>>
  BY DEF StartAppend, AppendThrows
<1>2. /\ append_pc' = [append_pc EXCEPT ![t] = to] /\ to \in {"lock", "returned"}
      /\ append_result' \in [Threads -> AppendResults]
      /\ append_result'[t] = "Ok" => to = "lock"
      /\ \A u \in Threads \ {t} : append_result'[u] = append_result[u]
  BY DEF StartAppend, AppendThrows, AppendReturns, AuditInv, AuditTypeOK, AppendResults
<1> HIDE DEF to
<1>3. AuditTypeOK'
  <2>1. file' \in Seq(Tokens(submitted')) /\ buffer' \in Seq(Tokens(submitted'))
    BY <1>1, TokensMonotone DEF AuditInv, AuditTypeOK
  <2> QED
    BY <1>1, <1>2, <2>1 DEF AuditInv, AuditTypeOK, AppendPcs
<1>4. AuditMutexHeld' /\ BufferIsHolders'
  BY <1>1, <1>2, ThreadsAssumption
  DEF AuditInv, AuditTypeOK, AuditMutexHeld, BufferIsHolders, InCriticalSection
<1>5. CallersKnow'
  BY <1>1, <1>2 DEF AuditInv, AuditTypeOK, CallersKnow, HasLine
<1>6. TailIsClean' /\ AcknowledgedIsWhole' /\ TornTailStaysLast'
  BY <1>1, FileFactsStay
<1> QED
  BY <1>3, <1>4, <1>5, <1>6 DEF AuditInv

(* Entering the critical section: nobody else is in it. *)
LEMMA LockInv ==
  ASSUME AuditInv, NEW t \in Threads, LockStream(t) \/ LockClosedStream(t)
  PROVE  AuditInv'
<1>1. AuditTypeOK'
  BY DEF LockStream, LockClosedStream, AppendReturns, AuditInv, AuditTypeOK, AppendPcs,
         AppendResults
<1>2. AuditMutexHeld' /\ BufferIsHolders'
  BY ThreadsAssumption
  DEF LockStream, LockClosedStream, AppendReturns, AuditInv, AuditTypeOK, AuditMutexHeld,
      BufferIsHolders, InCriticalSection
<1>3. CallersKnow'
  BY DEF LockStream, LockClosedStream, AppendReturns, AuditInv, AuditTypeOK, CallersKnow,
         HasLine
<1>4. TailIsClean' /\ AcknowledgedIsWhole' /\ TornTailStaysLast'
  BY FileFactsStay DEF LockStream, LockClosedStream
<1> QED
  BY <1>1, <1>2, <1>3, <1>4 DEF AuditInv

(* What inserting the line and then the newline makes of an empty buffer. *)
LEMMA ShortAppends ==
  ASSUME NEW x, NEW y
  PROVE  Append(<<>>, x) = <<x>> /\ Append(<<x>>, y) = <<x, y>>
<1>1. Append(<<>>, x) = <<x>>
  OBVIOUS
<1>2. Append(<<x>>, y) = <<x, y>>
  <2> DEFINE s == Append(<<x>>, y)
  <2>1. <<x>> \in Seq({x, y}) /\ <<x, y>> \in Seq({x, y})
    OBVIOUS
  <2>2. s \in Seq({x, y}) /\ Len(s) = 2 /\ s[1] = x /\ s[2] = y
    BY <2>1
  <2>3. \A i \in 1 .. 2 : i = 1 \/ i = 2
    OBVIOUS
  <2>4. Len(<<x, y>>) = 2 /\ <<x, y>>[1] = x /\ <<x, y>>[2] = y
    OBVIOUS
  <2> HIDE DEF s
  <2>5. \A i \in 1 .. Len(s) : s[i] = <<x, y>>[i]
    BY <2>2, <2>3, <2>4, Zenon
  <2>6. s = <<x, y>>
    BY <2>1, <2>2, <2>4, <2>5, SeqEqual
  <2> QED
    BY <2>6 DEF s
<1> QED
  BY <1>1, <1>2

(* Only the holder is in the critical section, so no other thread's buffer   *)
(* clause is disturbed.                                                      *)
LEMMA InsertInv ==
  ASSUME AuditInv, NEW t \in Threads, InsertLine(t) \/ InsertNewline(t)
  PROVE  AuditInv'
<1>1. append_record[t] \in submitted
  BY DEF InsertLine, InsertNewline, Insert, AuditInv, CallersKnow
<1>2. Line(append_record[t]) \in Tokens(submitted) /\ Newline \in Tokens(submitted)
  BY <1>1 DEF Line, Newline, Tokens
<1>3. AuditTypeOK'
  <2> DEFINE T == Tokens(submitted)
  <2>1. \A x \in T : Append(buffer, x) \in Seq(T)
    <3>1. buffer \in Seq(T)
      BY DEF AuditInv, AuditTypeOK
    <3> HIDE DEF T
    <3> QED
      BY <3>1
  <2>2. buffer' \in Seq(T) /\ submitted' = submitted
    <3>1. \/ buffer' = buffer
          \/ buffer' = Append(buffer, Line(append_record[t]))
          \/ buffer' = Append(buffer, Newline)
      BY DEF InsertLine, InsertNewline, Insert
    <3> QED
      BY <1>2, <2>1, <3>1, Zenon DEF AuditInv, AuditTypeOK, InsertLine, InsertNewline, Insert
  <2>3. append_pc' \in [Threads -> AppendPcs]
    BY DEF InsertLine, InsertNewline, Insert, AuditInv, AuditTypeOK, AppendPcs
  <2>4. UNCHANGED <<file, stream, opened_at, audit_mutex, append_record, append_result,
                    acknowledged>>
    BY DEF InsertLine, InsertNewline, Insert
  <2> QED
    BY <2>2, <2>3, <2>4 DEF AuditInv, AuditTypeOK
<1>4. AuditMutexHeld'
  BY DEF InsertLine, InsertNewline, Insert, AuditInv, AuditTypeOK, AuditMutexHeld,
         InCriticalSection
<1>5. BufferIsHolders'
  <2>1. audit_mutex = t /\ audit_mutex' = t
    BY DEF InsertLine, InsertNewline, Insert, AuditInv, AuditMutexHeld, InCriticalSection
  <2>2. \A u \in Threads \ {t} : append_pc'[u] \notin {"line", "newline", "flush", "check"}
    BY <2>1, <1>4 DEF AuditMutexHeld, InCriticalSection
  <2>3. CASE InsertLine(t)
    <3>1. stream = "good" => buffer' = <<Line(append_record[t])>>
      <4>1. stream = "good" => buffer = <<>> /\ buffer' = Append(buffer, Line(append_record[t]))
        BY <2>3 DEF InsertLine, Insert, AuditInv, BufferIsHolders
      <4> QED
        BY <4>1, ShortAppends, Zenon
    <3>2. /\ append_pc'[t] = "newline" /\ append_record' = append_record /\ stream' = stream
      BY <2>3 DEF InsertLine, Insert, AuditInv, AuditTypeOK
    <3> QED
      BY <2>1, <2>2, <3>1, <3>2, ThreadsAssumption DEF BufferIsHolders
  <2>4. CASE InsertNewline(t)
    <3>1. stream = "good" => buffer' = <<Line(append_record[t]), Newline>>
      <4>1. stream = "good" => /\ buffer = <<Line(append_record[t])>>
                               /\ buffer' = Append(buffer, Newline)
        BY <2>4 DEF InsertNewline, Insert, AuditInv, BufferIsHolders
      <4> QED
        BY <4>1, ShortAppends, Zenon
    <3>2. /\ append_pc'[t] = "flush" /\ append_record' = append_record /\ stream' = stream
      BY <2>4 DEF InsertNewline, Insert, AuditInv, AuditTypeOK
    <3> QED
      BY <2>1, <2>2, <3>1, <3>2, ThreadsAssumption DEF BufferIsHolders
  <2> QED
    BY <2>3, <2>4
<1>6. CallersKnow'
  BY DEF InsertLine, InsertNewline, Insert, AuditInv, AuditTypeOK, CallersKnow, HasLine
<1>7. TailIsClean' /\ AcknowledgedIsWhole' /\ TornTailStaysLast'
  BY FileFactsStay DEF InsertLine, InsertNewline, Insert
<1> QED
  BY <1>3, <1>4, <1>5, <1>6, <1>7 DEF AuditInv

(* The writes one append can lead to, whole or cut short. *)
Writings(r) == {<<>>, <<Line(r)>>, <<Fragment(r)>>, <<Line(r), Newline>>}

(* Such a write behind a clean tail: it holds submitted records only, and    *)
(* leaves every line of this process but its first behind a newline.         *)
LEMMA WriteInv ==
  ASSUME AuditTypeOK, TornTailStaysLast, TailIsClean, stream = "good",
         NEW r \in submitted, NEW w \in Writings(r), file' = file \o w
  PROVE  /\ w \in Seq(Tokens(submitted))
         /\ file' \in Seq(Tokens(submitted))
         /\ opened_at \in 0 .. Len(file')
         /\ opened_at' = opened_at => TornTailStaysLast'
<1> DEFINE T == Tokens(submitted)
<1>1. Line(r) \in T /\ Fragment(r) \in T /\ Newline \in T
  BY DEF Line, Fragment, Newline, Tokens
<1>2. file \in Seq(T) /\ opened_at \in 0 .. Len(file)
  BY DEF AuditTypeOK
<1>3. PICK x \in T : w = <<>> \/ w = <<x>> \/ w = <<x, Newline>>
  BY <1>1 DEF Writings
<1> HIDE DEF T
<1>4. /\ w \in Seq(T) /\ Len(w) \in 0 .. 2
      /\ Len(w) = 2 => w[2] = Newline
  <2>1. <<>> \in Seq(T) /\ Len(<<>>) = 0
    OBVIOUS
  <2>2. <<x>> \in Seq(T) /\ Len(<<x>>) = 1
    OBVIOUS
  <2>3. <<x, Newline>> \in Seq(T) /\ Len(<<x, Newline>>) = 2 /\ <<x, Newline>>[2] = Newline
    BY <1>1
  <2>4. 0 \in 0 .. 2 /\ 1 \in 0 .. 2 /\ 2 \in 0 .. 2 /\ 0 # 2 /\ 1 # 2
    OBVIOUS
  <2> QED
    BY <1>3, <2>1, <2>2, <2>3, <2>4, Zenon
<1>5. /\ file' \in Seq(T) /\ Len(file') = Len(file) + Len(w)
      /\ \A i \in 1 .. Len(file) : file'[i] = file[i]
  BY <1>2, <1>4
<1>6. ASSUME opened_at' = opened_at, NEW i \in opened_at + 2 .. Len(file'), file'[i] # Newline
      PROVE  file'[i - 1] = Newline
  <2>1. CASE i <= Len(file)
    BY <1>2, <1>5, <1>6, <2>1 DEF TornTailStaysLast
  <2>2. CASE i = Len(file) + 1
    <3>1. Len(file) > opened_at /\ i - 1 = Len(file) /\ Len(file) \in 1 .. Len(file)
      BY <1>2, <1>6, <2>2
    <3>2. file[Len(file)] = Newline
      BY <3>1 DEF TailIsClean
    <3> QED
      BY <1>5, <3>1, <3>2
  <2>3. CASE i > Len(file) + 1
    <3>1. Len(w) = 2 /\ i = Len(file) + 2
      BY <1>2, <1>4, <1>5, <1>6, <2>3
    <3>2. file'[i] = Newline
      BY <1>2, <1>4, <3>1, ConcatProperties
    <3> QED
      BY <1>6, <3>2
  <2>4. i \in Int /\ Len(file) \in Int
    BY <1>2, <1>6
  <2>5. i <= Len(file) \/ i = Len(file) + 1 \/ i > Len(file) + 1
    BY <2>4
  <2> QED
    BY <2>1, <2>2, <2>3, <2>5, Zenon
<1>7. opened_at' = opened_at => TornTailStaysLast'
  BY <1>6 DEF TornTailStaysLast
<1>8. opened_at \in 0 .. Len(file')
  BY <1>2, <1>4, <1>5
<1> QED
  BY <1>4, <1>5, <1>7, <1>8 DEF T

(* What a holder about to flush has in a good stream's buffer. *)
LEMMA FlushHas ==
  ASSUME AuditInv, NEW t \in Threads, append_pc[t] = "flush", stream = "good"
  PROVE  /\ append_record[t] \in submitted
         /\ buffer = <<Line(append_record[t]), Newline>>
         /\ audit_mutex = t
         /\ \A u \in Threads \ {t} :
              append_pc[u] \notin {"line", "newline", "flush", "check"}
BY DEF AuditInv, CallersKnow, BufferIsHolders, AuditMutexHeld, InCriticalSection

(* A complete write empties the buffer into the file. *)
LEMMA FlushWritesInv ==
  ASSUME AuditInv, NEW t \in Threads, FlushWrites(t)
  PROVE  AuditInv'
<1> DEFINE r == append_record[t]
<1>1. /\ r \in submitted /\ buffer = <<Line(r), Newline>> /\ audit_mutex = t
      /\ \A u \in Threads \ {t} : append_pc[u] \notin {"line", "newline", "flush", "check"}
  BY FlushHas DEF FlushWrites
<1>2. /\ file' = file \o buffer /\ buffer' = <<>> /\ stream = "good"
      /\ append_pc' = [append_pc EXCEPT ![t] = "check"]
      /\ UNCHANGED <<stream, opened_at, audit_mutex, append_record, append_result,
                     submitted, acknowledged>>
  BY DEF FlushWrites
<1>3. buffer \in Writings(r)
  BY <1>1 DEF Writings
<1>4. /\ buffer \in Seq(Tokens(submitted))
      /\ file' \in Seq(Tokens(submitted)) /\ opened_at \in 0 .. Len(file')
      /\ TornTailStaysLast'
  BY <1>1, <1>2, <1>3, WriteInv DEF AuditInv
<1>5. AuditTypeOK'
  BY <1>2, <1>4 DEF AuditInv, AuditTypeOK, AppendPcs
<1>6. AuditMutexHeld' /\ BufferIsHolders'
  BY <1>1, <1>2, ThreadsAssumption
  DEF AuditInv, AuditTypeOK, AuditMutexHeld, BufferIsHolders, InCriticalSection
<1>7. \A q : HasLine(q) => HasLine(q)'
  BY <1>2, <1>4, LinesStay DEF AuditInv, AuditTypeOK
<1>8. /\ Len(file') = Len(file) + 2 /\ Len(file) \in Nat
      /\ file'[Len(file) + 1] = Line(r) /\ file'[Len(file) + 2] = Newline
  <2> DEFINE T == Tokens(submitted)
  <2>1. file \in Seq(T) /\ buffer \in Seq(T) /\ Len(buffer) = 2 /\ buffer[1] = Line(r)
        /\ buffer[2] = Newline
    BY <1>1, <1>4 DEF AuditInv, AuditTypeOK
  <2> HIDE DEF T
  <2>2. /\ Len(file') = Len(file) + 2 /\ Len(file) \in Nat
        /\ file'[Len(file) + 1] = buffer[1] /\ file'[Len(file) + 2] = buffer[2]
    <3>1. /\ Len(file \o buffer) = Len(file) + 2 /\ Len(file) \in Nat
          /\ (file \o buffer)[Len(file) + 1] = buffer[1]
          /\ (file \o buffer)[Len(file) + 2] = buffer[2]
      BY <2>1, ConcatTwo
    <3>2. file' = file \o buffer
      BY <1>2
    <3> QED
      BY <3>1, <3>2, Zenon
  <2> QED
    BY <2>1, <2>2, Zenon
<1>9. HasLine(r)' /\ TailIsClean'
  <2>1. Len(file) + 1 \in 1 .. Len(file') - 1
    BY <1>8
  <2>2. HasLine(r)'
    BY <1>2, <1>8, <2>1 DEF HasLine, Line, Newline, NoRecord
  <2> QED
    BY <1>8, <2>2 DEF TailIsClean, Newline, NoRecord
<1>10. CallersKnow' /\ AcknowledgedIsWhole'
  <2>1. \A u \in Threads : append_pc'[u] = IF u = t THEN "check" ELSE append_pc[u]
    BY <1>2 DEF AuditInv, AuditTypeOK
  <2>2. CallersKnow'
    BY <1>1, <1>2, <1>9, <2>1 DEF AuditInv, CallersKnow
  <2> QED
    BY <1>2, <1>7, <2>2 DEF AuditInv, AcknowledgedIsWhole
<1> QED
  BY <1>4, <1>5, <1>6, <1>9, <1>10 DEF AuditInv

(* A failed flush makes the stream bad, which every clause about a good one  *)
(* then leaves alone.                                                        *)
LEMMA FlushFailsInv ==
  ASSUME AuditInv, NEW t \in Threads, FlushFails(t)
  PROVE  AuditInv'
<1> DEFINE r == append_record[t]
<1>1. r \in submitted /\ buffer = <<Line(r), Newline>>
  BY FlushHas DEF FlushFails
<1>2. /\ stream = "good" /\ stream' = "bad"
      /\ append_pc[t] = "flush" /\ append_pc' = [append_pc EXCEPT ![t] = "check"]
      /\ UNCHANGED <<buffer, opened_at, audit_mutex, append_record, append_result,
                     submitted, acknowledged>>
  BY DEF FlushFails
<1>3. PICK w \in PartialWrites(buffer) : file' = file \o w
  BY DEF FlushFails
<1>4. w \in Writings(r)
  BY <1>1, <1>3, PartialWriteOfALine DEF Writings
<1>5. /\ w \in Seq(Tokens(submitted))
      /\ file' \in Seq(Tokens(submitted)) /\ opened_at \in 0 .. Len(file')
      /\ TornTailStaysLast'
  BY <1>1, <1>2, <1>3, <1>4, WriteInv DEF AuditInv
<1>6. AuditTypeOK'
  BY <1>2, <1>5 DEF AuditInv, AuditTypeOK, AppendPcs, StreamStates
<1>7. AuditMutexHeld' /\ BufferIsHolders' /\ TailIsClean'
  BY <1>2 DEF AuditInv, AuditTypeOK, AuditMutexHeld, BufferIsHolders, TailIsClean,
              InCriticalSection
<1>8. CallersKnow'
  BY <1>2 DEF AuditInv, AuditTypeOK, CallersKnow
<1>9. AcknowledgedIsWhole'
  BY <1>2, <1>3, <1>5, LinesStay DEF AuditInv, AuditTypeOK, AcknowledgedIsWhole
<1> QED
  BY <1>5, <1>6, <1>7, <1>8, <1>9 DEF AuditInv

(* Flushing a bad or closed stream does nothing. *)
LEMMA FlushBadStreamInv ==
  ASSUME AuditInv, NEW t \in Threads, FlushBadStream(t)
  PROVE  AuditInv'
<1>1. AuditTypeOK'
  BY DEF FlushBadStream, AuditInv, AuditTypeOK, AppendPcs
<1>2. AuditMutexHeld' /\ BufferIsHolders'
  BY DEF FlushBadStream, AuditInv, AuditTypeOK, AuditMutexHeld, BufferIsHolders,
         InCriticalSection
<1>3. CallersKnow'
  BY DEF FlushBadStream, AuditInv, AuditTypeOK, CallersKnow
<1>4. TailIsClean' /\ AcknowledgedIsWhole' /\ TornTailStaysLast'
  BY FileFactsStay DEF FlushBadStream
<1> QED
  BY <1>1, <1>2, <1>3, <1>4 DEF AuditInv

(* The answer Ok is given in the one state in which the line is in the file. *)
LEMMA CheckStreamInv ==
  ASSUME AuditInv, NEW t \in Threads, CheckStream(t)
  PROVE  AuditInv'
<1>1. append_record[t] \in submitted /\ (stream = "good" => HasLine(append_record[t]))
  BY DEF CheckStream, AuditInv, CallersKnow
<1>2. AuditTypeOK'
  BY <1>1 DEF CheckStream, AppendReturns, AuditInv, AuditTypeOK, AppendPcs, AppendResults
<1>3. AuditMutexHeld' /\ BufferIsHolders'
  BY ThreadsAssumption
  DEF CheckStream, AppendReturns, AuditInv, AuditTypeOK, AuditMutexHeld, BufferIsHolders,
      InCriticalSection
<1>4. CallersKnow'
  BY DEF CheckStream, AppendReturns, AuditInv, AuditTypeOK, CallersKnow, HasLine
<1>5. TailIsClean' /\ AcknowledgedIsWhole' /\ TornTailStaysLast'
  BY <1>1 DEF CheckStream, AuditInv, TailIsClean, AcknowledgedIsWhole, TornTailStaysLast,
              HasLine
<1> QED
  BY <1>2, <1>3, <1>4, <1>5 DEF AuditInv

(* The caller takes the answer and leaves append(). *)
LEMMA TakeAppendResultInv ==
  ASSUME AuditInv, NEW t \in Threads, TakeAppendResult(t)
  PROVE  AuditInv'
<1>1. AuditTypeOK'
  BY DEF TakeAppendResult, AuditInv, AuditTypeOK, AppendPcs, AppendResults
<1>2. AuditMutexHeld' /\ BufferIsHolders'
  BY DEF TakeAppendResult, AuditInv, AuditTypeOK, AuditMutexHeld, BufferIsHolders,
         InCriticalSection
<1>3. CallersKnow'
  BY DEF TakeAppendResult, AuditInv, AuditTypeOK, CallersKnow, HasLine
<1>4. TailIsClean' /\ AcknowledgedIsWhole' /\ TornTailStaysLast'
  BY FileFactsStay DEF TakeAppendResult
<1> QED
  BY <1>1, <1>2, <1>3, <1>4 DEF AuditInv

(* The steps of append() together. *)
LEMMA AppendStepInv ==
  ASSUME AuditInv, NEW t \in Threads, AppendStep(t)
  PROVE  AuditInv'
BY LockInv, InsertInv, FlushWritesInv, FlushFailsInv, FlushBadStreamInv, CheckStreamInv
DEF AppendStep

(* A restart forgets everything but the file and the histories; what the     *)
(* dying process was writing is a beginning of its one line.                 *)
LEMMA AuditRestartInv ==
  ASSUME AuditInv, AuditRestart
  PROVE  AuditInv'
<1> DEFINE T == Tokens(submitted)
<1>1. PICK w \in {<<>>} \cup
               (IF stream = "good" /\ \E t \in Threads : append_pc[t] = "flush"
                THEN PartialWrites(buffer) ELSE {}) :
        file' = file \o w
  BY DEF AuditRestart
<1>2. w \in Seq(T) /\ file' \in Seq(T)
  <2>1. CASE w = <<>>
    BY <1>1, <2>1 DEF AuditInv, AuditTypeOK
  <2>2. CASE w # <<>>
    <3>1. PICK t \in Threads : append_pc[t] = "flush" /\ stream = "good"
      BY <1>1, <2>2
    <3>2. w \in PartialWrites(buffer)
      BY <1>1, <2>2
    <3>3. /\ append_record[t] \in submitted
          /\ buffer = <<Line(append_record[t]), Newline>>
      BY <3>1, FlushHas
    <3>4. w \in Writings(append_record[t])
      BY <3>2, <3>3, PartialWriteOfALine DEF Writings
    <3> QED
      BY <1>1, <3>1, <3>3, <3>4, WriteInv DEF AuditInv
  <2> QED
    BY <2>1, <2>2
<1>3. /\ opened_at' = Len(file') /\ buffer' = <<>> /\ stream' \in {"good", "closed"}
      /\ audit_mutex' = NoThread /\ append_pc' = [t \in Threads |-> "idle"]
      /\ append_record' = [t \in Threads |-> NoRecord]
      /\ append_result' = [t \in Threads |-> "Ok"]
      /\ UNCHANGED <<submitted, acknowledged>>
  BY DEF AuditRestart, OpenStream
<1>4. Len(file') \in Nat
  <2> HIDE DEF T
  <2> QED
    BY <1>2
<1>5. AuditTypeOK'
  BY <1>2, <1>3, <1>4 DEF AuditInv, AuditTypeOK, AppendPcs, AppendResults, StreamStates
<1>6. AuditMutexHeld' /\ BufferIsHolders' /\ CallersKnow'
  BY <1>3, ThreadsAssumption DEF AuditMutexHeld, BufferIsHolders, CallersKnow,
                                 InCriticalSection
<1>7. TailIsClean' /\ TornTailStaysLast'
  BY <1>3, <1>4 DEF TailIsClean, TornTailStaysLast
<1>8. AcknowledgedIsWhole'
  BY <1>1, <1>2, <1>3, LinesStay DEF AuditInv, AuditTypeOK, AcknowledgedIsWhole
<1> QED
  BY <1>5, <1>6, <1>7, <1>8 DEF AuditInv
----------------------------------------------------------------------------
(* What the callers have to keep for "no retries" to mean anything: a record *)
(* is appended once.  The facts below say what the file then tells of every  *)
(* record and of every call under way.                                       *)
Unwritten(t) == append_pc[t] \in {"lock", "line", "newline", "flush"}

(* The call has put the whole line into the file. *)
Recorded(t) ==
  \/ append_pc[t] = "check" /\ stream = "good"
  \/ append_pc[t] = "returned" /\ append_result[t] = "Ok"

(* The file is made of newlines and of lines or fragments of records. *)
FileIsOfRecords ==
  \A i \in 1 .. Len(file) :
     \/ file[i] = Newline
     \/ \E r \in submitted : file[i] = Line(r) \/ file[i] = Fragment(r)

(* Two calls under way have two records. *)
CallsAreDistinct ==
  \A t, u \in Threads :
     (t # u /\ append_pc[t] # "idle" /\ append_pc[u] # "idle") =>
        append_record[t] # append_record[u]

(* Nothing of a record is in the file before its flush. *)
PendingIsFresh ==
  \A t \in Threads : Unwritten(t) =>
     \A i \in 1 .. Len(file) : file[i].record # append_record[t]

(* A call finds its whole line in the file only if it put it there. *)
WholeMeansRecorded ==
  \A t \in Threads :
     (append_pc[t] # "idle" /\ HasLine(append_record[t])) => Recorded(t)

CopyInv ==
  /\ NoRecord \notin submitted
  /\ FileIsOfRecords
  /\ CallsAreDistinct
  /\ PendingIsFresh
  /\ WholeMeansRecorded
  /\ AtMostOneCopy
(* What one write adds: at most one token of the record, then its newline if *)
(* the write was complete.                                                   *)
LEMMA WriteTokens ==
  ASSUME NEW T, file \in Seq(T), NEW r, NEW w \in Writings(r), w \in Seq(T),
         file' = file \o w
  PROVE  /\ Len(file) \in Nat /\ Len(file') \in Nat /\ Len(file') >= Len(file)
         /\ \A i \in 1 .. Len(file) : i \in 1 .. Len(file') /\ file'[i] = file[i]
         /\ \A i \in 1 .. Len(file') :
              \/ i \in 1 .. Len(file)
              \/ /\ i = Len(file) + 1
                 /\ file'[i] = Line(r) \/ file'[i] = Fragment(r)
              \/ /\ i = Len(file) + 2
                 /\ file'[i] = Newline /\ file'[i - 1] = Line(r)
                 /\ w = <<Line(r), Newline>>
<1>1. /\ Len(file) \in Nat /\ Len(w) \in Nat /\ Len(file') = Len(file) + Len(w)
      /\ \A i \in 1 .. Len(file) : file'[i] = file[i]
      /\ \A i \in 1 .. Len(w) : file'[Len(file) + i] = w[i]
  <2>1. ASSUME NEW f \in Seq(T), NEW b \in Seq(T)
        PROVE  /\ Len(f) \in Nat /\ Len(b) \in Nat /\ Len(f \o b) = Len(f) + Len(b)
               /\ \A i \in 1 .. Len(f) : (f \o b)[i] = f[i]
               /\ \A i \in 1 .. Len(b) : (f \o b)[Len(f) + i] = b[i]
    BY ConcatProperties
  <2>2. /\ Len(file \o w) = Len(file) + Len(w)
        /\ \A i \in 1 .. Len(file) : (file \o w)[i] = file[i]
        /\ \A i \in 1 .. Len(w) : (file \o w)[Len(file) + i] = w[i]
        /\ Len(file) \in Nat /\ Len(w) \in Nat
    BY <2>1
  <2>3. file' = file \o w
    OBVIOUS
  <2> QED
    BY <2>2, <2>3, Zenon
<1>2. \/ Len(w) = 0
      \/ Len(w) = 1 /\ (w[1] = Line(r) \/ w[1] = Fragment(r))
      \/ Len(w) = 2 /\ w[1] = Line(r) /\ w[2] = Newline /\ w = <<Line(r), Newline>>
  BY DEF Writings
<1>3. ASSUME NEW i \in 1 .. Len(file'), i \notin 1 .. Len(file)
      PROVE  \/ /\ i = Len(file) + 1
                /\ file'[i] = Line(r) \/ file'[i] = Fragment(r)
             \/ /\ i = Len(file) + 2
                /\ file'[i] = Newline /\ file'[i - 1] = Line(r)
                /\ w = <<Line(r), Newline>>
  <2>1. i = Len(file) + 1 \/ (i = Len(file) + 2 /\ Len(w) = 2 /\ i - 1 = Len(file) + 1)
    BY <1>1, <1>2, <1>3
  <2>2. Len(w) >= 1
    BY <1>1, <1>3
  <2>3. /\ 1 \in 1 .. Len(w) /\ (Len(w) = 2 => 2 \in 1 .. Len(w))
        /\ Len(w) # 0 /\ (Len(w) = 2 => Len(w) # 1)
    <3>1. \A n \in Nat : n >= 1 => /\ 1 \in 1 .. n /\ (n = 2 => 2 \in 1 .. n)
                                  /\ n # 0 /\ (n = 2 => n # 1)
      OBVIOUS
    <3> QED
      BY <1>1, <2>2, <3>1, Zenon
  <2> QED
    BY <1>1, <1>2, <2>1, <2>3, Zenon
<1> QED
  BY <1>1, <1>3

(* Only a complete write makes a line whole, and only the line it writes. *)
LEMMA WholeLines ==
  ASSUME NEW T, file \in Seq(T), NEW r, NEW w \in Writings(r), w \in Seq(T),
         file' = file \o w, NEW q
  PROVE  HasLine(q)' <=> HasLine(q) \/ (w = <<Line(r), Newline>> /\ q = r)
<1>1. Newline # Line(r) /\ Newline # Fragment(r) /\ Fragment(r) # Line(q)
  BY DEF Newline, Line, Fragment
<1>2. Line(r) = Line(q) => r = q
  BY DEF Line
<1>3. HasLine(q)' <=> \E i \in 1 .. Len(file') - 1 : file'[i] = Line(q) /\ file'[i + 1] = Newline
  BY DEF HasLine, Line, Newline, NoRecord
<1>4. ASSUME HasLine(q)', ~HasLine(q)
      PROVE  w = <<Line(r), Newline>> /\ q = r
  <2>1. PICK i \in 1 .. Len(file') - 1 : file'[i] = Line(q) /\ file'[i + 1] = Newline
    BY <1>3, <1>4
  <2>2. i \in 1 .. Len(file') /\ i + 1 \in 1 .. Len(file')
    BY WriteTokens
  <2>3. ~(i \in 1 .. Len(file) /\ i + 1 \in 1 .. Len(file))
    <3>1. SUFFICES ASSUME i \in 1 .. Len(file), i + 1 \in 1 .. Len(file)
                   PROVE  FALSE
      OBVIOUS
    <3>2. file[i] = Line(q) /\ file[i + 1] = Newline
      BY <2>1, <3>1, WriteTokens
    <3>3. i \in 1 .. Len(file) - 1
      BY <3>1, WriteTokens
    <3> QED
      BY <1>4, <3>2, <3>3 DEF HasLine
  <2>4. i + 1 \notin 1 .. Len(file)
    BY <2>3, WriteTokens
  <2>5. /\ i + 1 = Len(file) + 2 /\ w = <<Line(r), Newline>>
        /\ file'[(i + 1) - 1] = Line(r)
    BY <1>1, <2>1, <2>2, <2>4, WriteTokens
  <2>6. (i + 1) - 1 = i
    OBVIOUS
  <2> QED
    BY <1>2, <2>1, <2>5, <2>6
<1>5. HasLine(q) => HasLine(q)'
  BY LinesStay
<1>6. w = <<Line(r), Newline>> => HasLine(r)'
  <2>1. SUFFICES ASSUME w = <<Line(r), Newline>>
                 PROVE  HasLine(r)'
    OBVIOUS
  <2>2. Len(w) = 2 /\ w[1] = Line(r) /\ w[2] = Newline
    BY <2>1
  <2>3. /\ Len(file') = Len(file) + 2 /\ Len(file) \in Nat
        /\ file'[Len(file) + 1] = w[1] /\ file'[Len(file) + 2] = w[2]
    <3>1. /\ Len(file \o w) = Len(file) + 2 /\ Len(file) \in Nat
          /\ (file \o w)[Len(file) + 1] = w[1] /\ (file \o w)[Len(file) + 2] = w[2]
      BY <2>2, ConcatTwo
    <3>2. file' = file \o w
      OBVIOUS
    <3> QED
      BY <3>1, <3>2, Zenon
  <2>4. /\ Len(file) + 1 \in 1 .. Len(file') - 1
        /\ (Len(file) + 1) + 1 = Len(file) + 2
    BY <2>3
  <2> QED
    BY <2>2, <2>3, <2>4 DEF HasLine, Line, Newline, NoRecord
<1> QED
  BY <1>4, <1>5, <1>6

(* An empty file holds no copies. *)
LEMMA CopyInitInv == AuditInit => CopyInv
BY DEF AuditInit, CopyInv, FileIsOfRecords, CallsAreDistinct, PendingIsFresh,
       WholeMeansRecorded, AtMostOneCopy, Unwritten

(* Steps of the rest of the service keep it. *)
LEMMA CopyStutterInv == CopyInv /\ UNCHANGED auditVars => CopyInv'
BY DEF auditVars, CopyInv, FileIsOfRecords, CallsAreDistinct, PendingIsFresh,
       WholeMeansRecorded, AtMostOneCopy, Unwritten, Recorded, HasLine, Line, Fragment,
       Newline, NoRecord

(* The records of the three kinds of token. *)
LEMMA TokenRecords ==
  ASSUME NEW r
  PROVE  /\ Line(r).record = r /\ Fragment(r).record = r /\ Newline.record = NoRecord
         /\ Line(r) # Newline /\ Fragment(r) # Newline
BY DEF Line, Fragment, Newline

(* A token of the file is a newline or tells a submitted record. *)
LEMMA TokenOfFile ==
  ASSUME CopyInv, NEW i \in 1 .. Len(file)
  PROVE  \/ file[i] = Newline /\ file[i].record = NoRecord
         \/ file[i] # Newline /\ file[i].record \in submitted /\ file[i].record # NoRecord
<1>1. CASE file[i] = Newline
  BY <1>1, TokenRecords
<1>2. ASSUME NEW r \in submitted, file[i] = Line(r) \/ file[i] = Fragment(r)
      PROVE  file[i] # Newline /\ file[i].record \in submitted /\ file[i].record # NoRecord
  <2>1. file[i].record = r /\ file[i] # Newline
    BY <1>2, TokenRecords
  <2> QED
    BY <2>1 DEF CopyInv
<1> QED
  BY <1>1, <1>2 DEF CopyInv, FileIsOfRecords

(* A record that was never submitted is nowhere in the file. *)
LEMMA NewRecordIsNowhere ==
  ASSUME CopyInv, NEW r, r \notin submitted, r # NoRecord
  PROVE  ~HasLine(r) /\ \A i \in 1 .. Len(file) : file[i].record # r
<1>1. ASSUME NEW i \in 1 .. Len(file)
      PROVE  file[i].record # r
  BY <1>1, TokenOfFile
<1>2. ASSUME HasLine(r)
      PROVE  FALSE
  <2>1. PICK i \in 1 .. Len(file) - 1 : file[i] = Line(r)
    BY <1>2 DEF HasLine
  <2>2. i \in 1 .. Len(file)
    <3>1. CASE Len(file) \in Int
      BY <3>1
    <3>2. CASE Len(file) \notin Int
      BY <3>2, <2>1, <1>1 DEF Line
    <3> QED
      BY <3>1, <3>2
  <2> QED
    BY <1>1, <2>1, <2>2 DEF Line
<1> QED
  BY <1>1, <1>2

(* append() is entered with a record nobody appended before. *)
LEMMA StartCopyInv ==
  ASSUME AuditInv, CopyInv, NEW t \in Threads, NEW r, r \notin submitted, r # NoRecord,
         StartAppend(t, r) \/ AppendThrows(t, r)
  PROVE  CopyInv'
<1>1. /\ append_record' = [append_record EXCEPT ![t] = r]
      /\ submitted' = submitted \cup {r}
      /\ append_pc' \in [Threads -> AppendPcs]
      /\ \A u \in Threads \ {t} : append_pc'[u] = append_pc[u] /\ append_result'[u] = append_result[u]
      /\ append_pc'[t] \in {"lock", "returned"}
      /\ UNCHANGED <<file, stream>>
  BY DEF StartAppend, AppendThrows, AppendReturns, AuditInv, AuditTypeOK, AppendPcs
<1>2. \A u \in Threads : append_record'[u] = IF u = t THEN r ELSE append_record[u]
  BY <1>1 DEF AuditInv, AuditTypeOK
<1>3. ~HasLine(r) /\ \A i \in 1 .. Len(file) : file[i].record # r
  BY NewRecordIsNowhere
<1>4. \A q : HasLine(q)' <=> HasLine(q)
  BY <1>1 DEF HasLine, Line, Newline, NoRecord
<1>5. FileIsOfRecords' /\ AtMostOneCopy' /\ NoRecord' \notin submitted'
  <2>1. FileIsOfRecords'
    BY <1>1 DEF CopyInv, FileIsOfRecords, Newline, Line, Fragment, NoRecord
  <2>2. AtMostOneCopy'
    BY <1>1 DEF CopyInv, AtMostOneCopy, Newline, NoRecord
  <2>3. NoRecord' \notin submitted'
    BY <1>1 DEF CopyInv, NoRecord
  <2> QED
    BY <2>1, <2>2, <2>3
<1>6. CallsAreDistinct'
  <2>1. \A u \in Threads \ {t} : append_pc'[u] # "idle" => append_record[u] \in submitted
    BY <1>1 DEF AuditInv, CallersKnow
  <2> QED
    BY <1>1, <1>2, <2>1 DEF CopyInv, CallsAreDistinct
<1>7. PendingIsFresh'
  BY <1>1, <1>2, <1>3 DEF CopyInv, PendingIsFresh, Unwritten
<1>8. WholeMeansRecorded'
  BY <1>1, <1>2, <1>3, <1>4 DEF CopyInv, WholeMeansRecorded, Recorded
<1> QED
  BY <1>5, <1>6, <1>7, <1>8 DEF CopyInv

(* The steps of a call that leave the file alone. *)
LEMMA QuietCopyInv ==
  ASSUME AuditInv, CopyInv, NEW t \in Threads,
         \/ LockStream(t) \/ LockClosedStream(t) \/ InsertLine(t) \/ InsertNewline(t)
         \/ FlushBadStream(t) \/ CheckStream(t)
  PROVE  CopyInv'
<1>1. /\ UNCHANGED <<file, stream, submitted, append_record>>
      /\ \A u \in Threads \ {t} : append_pc'[u] = append_pc[u] /\ append_result'[u] = append_result[u]
      /\ append_pc[t] # "idle"
      /\ Unwritten(t)' => Unwritten(t)
      /\ Recorded(t) => Recorded(t)'
  BY DEF LockStream, LockClosedStream, InsertLine, InsertNewline, Insert, FlushBadStream,
         CheckStream, AppendReturns, AuditInv, AuditTypeOK, Unwritten, Recorded
<1>2. \A q : HasLine(q)' <=> HasLine(q)
  BY <1>1 DEF HasLine, Line, Newline, NoRecord
<1>3. FileIsOfRecords' /\ AtMostOneCopy' /\ NoRecord' \notin submitted'
  BY <1>1 DEF CopyInv, FileIsOfRecords, AtMostOneCopy, Newline, Line, Fragment, NoRecord
<1>4. CallsAreDistinct'
  BY <1>1 DEF CopyInv, CallsAreDistinct
<1>5. PendingIsFresh'
  BY <1>1 DEF CopyInv, PendingIsFresh, Unwritten
<1>6. WholeMeansRecorded'
  <2>1. \A u \in Threads \ {t} : Recorded(u) => Recorded(u)'
    BY <1>1 DEF Recorded
  <2>2. \A u \in Threads : append_pc[u]' # "idle" => append_pc[u] # "idle"
    BY <1>1
  <2> QED
    BY <1>1, <1>2, <2>1, <2>2 DEF CopyInv, WholeMeansRecorded
<1> QED
  BY <1>3, <1>4, <1>5, <1>6 DEF CopyInv

(* What a write leaves of a record: nothing twice. *)
LEMMA WriteCopies ==
  ASSUME AuditTypeOK, CopyInv, NEW r \in submitted, NEW w \in Writings(r),
         w \in Seq(Tokens(submitted)), file' = file \o w, submitted' = submitted,
         \A i \in 1 .. Len(file) : file[i].record # r
  PROVE  /\ FileIsOfRecords' /\ AtMostOneCopy' /\ NoRecord' \notin submitted'
         /\ \A q : q # r /\ q # NoRecord /\ (\A i \in 1 .. Len(file) : file[i].record # q)
                   => \A i \in 1 .. Len(file') : file'[i].record # q
<1> DEFINE n == Len(file)
<1>1. /\ n \in Nat /\ Len(file') \in Nat /\ Len(file') >= n
      /\ \A i \in 1 .. n : file'[i] = file[i]
      /\ \A i \in 1 .. Len(file') :
           \/ i \in 1 .. n
           \/ i = n + 1 /\ (file'[i] = Line(r) \/ file'[i] = Fragment(r))
           \/ i = n + 2 /\ file'[i] = Newline
  <2>1. file \in Seq(Tokens(submitted))
    BY DEF AuditTypeOK
  <2> QED
    BY <2>1, WriteTokens
<1> HIDE DEF n
<1>2. /\ Line(r).record = r /\ Fragment(r).record = r /\ Newline.record = NoRecord
      /\ Line(r) # Newline /\ Fragment(r) # Newline /\ r # NoRecord
  BY TokenRecords DEF CopyInv
<1>3. FileIsOfRecords'
  <2>1. ASSUME NEW i \in 1 .. Len(file')
        PROVE  \/ file'[i] = Newline
               \/ \E q \in submitted : file'[i] = Line(q) \/ file'[i] = Fragment(q)
    <3>1. i \in 1 .. n => \/ file[i] = Newline
                          \/ \E q \in submitted : file[i] = Line(q) \/ file[i] = Fragment(q)
      BY DEF CopyInv, FileIsOfRecords, n
    <3> QED
      BY <1>1, <2>1, <3>1
  <2> QED
    BY <2>1 DEF FileIsOfRecords, Newline, Line, Fragment, NoRecord
<1>4. AtMostOneCopy'
  <2>1. ASSUME NEW i \in 1 .. Len(file'), NEW j \in 1 .. Len(file'), i # j,
               file'[i] # Newline
        PROVE  file'[i].record # file'[j].record
    <3>1. \A k \in 1 .. n : file[k].record # r
      BY DEF n
    <3>2. \A k \in 1 .. n : file[k] # Newline => file[k].record # NoRecord
      BY TokenOfFile DEF n
    <3>3. CASE i \in 1 .. n /\ j \in 1 .. n
      BY <1>1, <2>1, <3>3 DEF CopyInv, AtMostOneCopy, n
    <3>4. CASE i \in 1 .. n /\ j \notin 1 .. n
      BY <1>1, <1>2, <2>1, <3>1, <3>2, <3>4
    <3>5. CASE i \notin 1 .. n
      <4>1. file'[i].record = r /\ i = n + 1
        BY <1>1, <1>2, <2>1, <3>5
      <4>2. CASE j \in 1 .. n
        BY <1>1, <3>1, <4>1, <4>2
      <4>3. CASE j \notin 1 .. n
        <5>1. file'[j] = Newline
          BY <1>1, <2>1, <4>1, <4>3
        <5> QED
          BY <1>2, <4>1, <5>1
      <4> QED
        BY <4>2, <4>3
    <3> QED
      BY <3>3, <3>4, <3>5
  <2> QED
    BY <2>1 DEF AtMostOneCopy, Newline, NoRecord
<1>5. ASSUME NEW q, q # r, q # NoRecord, \A i \in 1 .. n : file[i].record # q,
             NEW i \in 1 .. Len(file')
      PROVE  file'[i].record # q
  BY <1>1, <1>2, <1>5
<1> QED
  BY <1>3, <1>4, <1>5 DEF CopyInv, NoRecord, n

(* A write of which the end is missing. *)
LEMMA TornWrite ==
  ASSUME NEW r, NEW w \in PartialWrites(<<Line(r), Newline>>)
  PROVE  w \in Writings(r) /\ w # <<Line(r), Newline>>
<1>1. w \in {<<>>, <<Line(r)>>, <<Fragment(r)>>}
  BY PartialWriteOfALine
<1>2. /\ Len(<<>>) # Len(<<Line(r), Newline>>)
      /\ Len(<<Line(r)>>) # Len(<<Line(r), Newline>>)
      /\ Len(<<Fragment(r)>>) # Len(<<Line(r), Newline>>)
  OBVIOUS
<1> QED
  BY <1>1, <1>2, Zenon DEF Writings

(* What flushing, well or badly, does to the file. *)
LEMMA FlushEffect ==
  ASSUME AuditInv, NEW t \in Threads, FlushWrites(t) \/ FlushFails(t)
  PROVE  /\ append_record[t] \in submitted /\ append_pc[t] = "flush"
         /\ \A u \in Threads : append_pc'[u] = IF u = t THEN "check" ELSE append_pc[u]
         /\ \A u \in Threads \ {t} :
              append_pc[u] \notin {"line", "newline", "flush", "check"}
         /\ UNCHANGED <<append_record, append_result, submitted>>
         /\ \E w \in Writings(append_record[t]) :
              /\ w \in Seq(Tokens(submitted)) /\ file' = file \o w
              /\ stream' = "good" <=> w = <<Line(append_record[t]), Newline>>
         /\ FlushWrites(t) => stream' = "good"
         /\ FlushFails(t) => stream' # "good"
<1> DEFINE r == append_record[t]
<1>1. stream = "good" /\ append_pc[t] = "flush"
  BY DEF FlushWrites, FlushFails
<1>2. /\ r \in submitted /\ buffer = <<Line(r), Newline>>
      /\ \A u \in Threads \ {t} : append_pc[u] \notin {"line", "newline", "flush", "check"}
  BY <1>1, FlushHas
<1>3. /\ \A u \in Threads : append_pc'[u] = IF u = t THEN "check" ELSE append_pc[u]
      /\ UNCHANGED <<append_record, append_result, submitted>>
      /\ FlushWrites(t) => stream' = "good"
      /\ FlushFails(t) => stream' = "bad"
  BY <1>1 DEF FlushWrites, FlushFails, AuditInv, AuditTypeOK
<1>4. \E w \in Writings(r) : /\ file' = file \o w
                             /\ stream' = "good" <=> w = <<Line(r), Newline>>
  <2>1. CASE FlushWrites(t)
    <3>1. file' = file \o <<Line(r), Newline>>
      BY <1>2, <2>1 DEF FlushWrites
    <3> QED
      BY <1>3, <2>1, <3>1 DEF Writings
  <2>2. CASE FlushFails(t)
    <3>1. PICK w \in PartialWrites(<<Line(r), Newline>>) : file' = file \o w
      BY <1>2, <2>2 DEF FlushFails
    <3>2. w \in Writings(r) /\ w # <<Line(r), Newline>>
      BY <3>1, TornWrite
    <3>3. stream' # "good"
      BY <1>3, <2>2
    <3> QED
      BY <3>1, <3>2, <3>3
  <2> QED
    BY <2>1, <2>2
<1>5. PICK w \in Writings(r) : /\ file' = file \o w
                               /\ stream' = "good" <=> w = <<Line(r), Newline>>
  BY <1>4
<1>6. w \in Seq(Tokens(submitted))
  BY <1>1, <1>2, <1>5, WriteInv DEF AuditInv
<1> QED
  BY <1>1, <1>2, <1>3, <1>5, <1>6

(* A whole line appears when, and only when, a flush succeeds. *)
LEMMA FlushedLines ==
  ASSUME AuditInv, NEW t \in Threads, FlushWrites(t) \/ FlushFails(t)
  PROVE  \A q : HasLine(q)' <=> HasLine(q) \/ (stream' = "good" /\ q = append_record[t])
<1> DEFINE r == append_record[t]
<1>1. PICK w \in Writings(r) : /\ w \in Seq(Tokens(submitted)) /\ file' = file \o w
                               /\ stream' = "good" <=> w = <<Line(r), Newline>>
  BY FlushEffect
<1>2. file \in Seq(Tokens(submitted))
  BY DEF AuditInv, AuditTypeOK
<1>3. ASSUME NEW q
      PROVE  HasLine(q)' <=> HasLine(q) \/ (w = <<Line(r), Newline>> /\ q = r)
  BY <1>1, <1>2, WholeLines
<1> QED
  BY <1>1, <1>3

(* A flush puts its record into the file for the first time. *)
LEMMA FlushCopyInv ==
  ASSUME AuditInv, CopyInv, NEW t \in Threads, FlushWrites(t) \/ FlushFails(t)
  PROVE  CopyInv'
<1> DEFINE r == append_record[t]
<1>1. /\ r \in submitted /\ append_pc[t] = "flush"
      /\ \A u \in Threads : append_pc'[u] = IF u = t THEN "check" ELSE append_pc[u]
      /\ \A u \in Threads \ {t} : append_pc[u] \notin {"line", "newline", "flush", "check"}
      /\ UNCHANGED <<append_record, append_result, submitted>>
  BY FlushEffect
<1>2. PICK w \in Writings(r) : w \in Seq(Tokens(submitted)) /\ file' = file \o w
  BY FlushEffect
<1>3. \A i \in 1 .. Len(file) : file[i].record # r
  BY <1>1 DEF CopyInv, PendingIsFresh, Unwritten
<1>4. /\ FileIsOfRecords' /\ AtMostOneCopy' /\ NoRecord' \notin submitted'
      /\ \A q : q # r /\ q # NoRecord /\ (\A i \in 1 .. Len(file) : file[i].record # q)
                => \A i \in 1 .. Len(file') : file'[i].record # q
  BY <1>1, <1>2, <1>3, WriteCopies DEF AuditInv
<1>5. CallsAreDistinct'
  BY <1>1 DEF CopyInv, CallsAreDistinct
<1>6. PendingIsFresh'
  <2>1. ASSUME NEW u \in Threads, Unwritten(u)'
        PROVE  \A i \in 1 .. Len(file') : file'[i].record # append_record'[u]
    <3>1. u # t /\ append_pc[u] = append_pc'[u] /\ Unwritten(u) /\ append_pc[u] # "idle"
      BY <1>1, <2>1 DEF Unwritten
    <3>2. append_record[u] # r /\ append_record[u] # NoRecord
      BY <1>1, <3>1 DEF CopyInv, CallsAreDistinct, AuditInv, CallersKnow
    <3>3. \A i \in 1 .. Len(file) : file[i].record # append_record[u]
      BY <3>1 DEF CopyInv, PendingIsFresh
    <3> QED
      BY <1>1, <1>4, <3>2, <3>3
  <2> QED
    BY <2>1 DEF PendingIsFresh
<1>7. WholeMeansRecorded'
  <2>1. \A q : HasLine(q)' <=> HasLine(q) \/ (stream' = "good" /\ q = r)
    BY FlushedLines
  <2>2. ASSUME NEW u \in Threads, append_pc'[u] # "idle", HasLine(append_record[u])'
        PROVE  Recorded(u)'
    <3>1. CASE u = t
      <4>1. ~HasLine(r)
        <5>1. ~Recorded(t)
          BY <1>1 DEF Recorded
        <5> QED
          BY <1>1, <5>1 DEF CopyInv, WholeMeansRecorded
      <4>2. append_record'[u] = r
        BY <1>1, <3>1
      <4>3. stream' = "good"
        BY <2>1, <2>2, <4>1, <4>2
      <4> QED
        BY <1>1, <3>1, <4>3 DEF Recorded
    <3>2. CASE u # t
      <4>1. append_pc[u] # "idle" /\ append_record[u] # r /\ append_record'[u] = append_record[u]
        BY <1>1, <2>2, <3>2 DEF CopyInv, CallsAreDistinct
      <4>2. HasLine(append_record[u])
        BY <2>1, <2>2, <4>1
      <4>3. Recorded(u)
        BY <4>1, <4>2 DEF CopyInv, WholeMeansRecorded
      <4> QED
        BY <1>1, <3>2, <4>3 DEF Recorded
    <3> QED
      BY <3>1, <3>2
  <2> QED
    BY <2>2 DEF WholeMeansRecorded
<1> QED
  BY <1>4, <1>5, <1>6, <1>7 DEF CopyInv

(* The steps of append() together. *)
LEMMA AppendStepCopyInv ==
  ASSUME AuditInv, CopyInv, NEW t \in Threads, AppendStep(t)
  PROVE  CopyInv'
BY QuietCopyInv, FlushCopyInv DEF AppendStep

(* The caller takes the answer: one call less. *)
LEMMA TakeCopyInv ==
  ASSUME AuditInv, CopyInv, NEW t \in Threads, TakeAppendResult(t)
  PROVE  CopyInv'
<1>1. /\ UNCHANGED <<file, stream, submitted>>
      /\ append_pc'[t] = "idle"
      /\ \A u \in Threads \ {t} :
           /\ append_pc'[u] = append_pc[u] /\ append_result'[u] = append_result[u]
           /\ append_record'[u] = append_record[u]
  BY DEF TakeAppendResult, AuditInv, AuditTypeOK
<1>2. \A q : HasLine(q)' <=> HasLine(q)
  BY <1>1 DEF HasLine, Line, Newline, NoRecord
<1>3. FileIsOfRecords' /\ AtMostOneCopy' /\ NoRecord' \notin submitted'
  BY <1>1 DEF CopyInv, FileIsOfRecords, AtMostOneCopy, Newline, Line, Fragment, NoRecord
<1>4. CallsAreDistinct' /\ PendingIsFresh'
  BY <1>1 DEF CopyInv, CallsAreDistinct, PendingIsFresh, Unwritten
<1>5. WholeMeansRecorded'
  <2>1. \A u \in Threads \ {t} : Recorded(u) => Recorded(u)'
    BY <1>1 DEF Recorded
  <2> QED
    BY <1>1, <1>2, <2>1 DEF CopyInv, WholeMeansRecorded
<1> QED
  BY <1>3, <1>4, <1>5 DEF CopyInv

(* What a dying process leaves behind its file: nothing, or the beginning of *)
(* the line whose flush it did not survive.                                  *)
LEMMA RestartEffect ==
  ASSUME AuditInv, CopyInv, AuditRestart
  PROVE  /\ UNCHANGED submitted
         /\ append_pc' = [t \in Threads |-> "idle"]
         /\ \/ file' = file
            \/ \E t \in Threads : \E w \in Writings(append_record[t]) :
                 /\ append_pc[t] = "flush" /\ append_record[t] \in submitted
                 /\ w \in Seq(Tokens(submitted)) /\ file' = file \o w
                 /\ w # <<Line(append_record[t]), Newline>>
<1>1. UNCHANGED submitted /\ append_pc' = [t \in Threads |-> "idle"]
  BY DEF AuditRestart
<1>2. PICK w \in {<<>>} \cup
               (IF stream = "good" /\ \E t \in Threads : append_pc[t] = "flush"
                THEN PartialWrites(buffer) ELSE {}) :
        file' = file \o w
  BY DEF AuditRestart
<1>3. CASE w = <<>>
  <2>1. \A T : \A f \in Seq(T) : f \o <<>> = f
    BY ConcatEmptySeq
  <2>2. file' = file
    BY <1>2, <1>3, <2>1 DEF AuditInv, AuditTypeOK
  <2> QED
    BY <1>1, <2>2
<1>4. CASE w # <<>>
  <2>1. PICK t \in Threads : append_pc[t] = "flush" /\ stream = "good"
    BY <1>2, <1>4
  <2>2. /\ append_record[t] \in submitted
        /\ buffer = <<Line(append_record[t]), Newline>>
    BY <2>1, FlushHas
  <2>3. w \in PartialWrites(<<Line(append_record[t]), Newline>>)
    BY <1>2, <1>4, <2>2
  <2>4. w \in Writings(append_record[t]) /\ w # <<Line(append_record[t]), Newline>>
    BY <2>3, TornWrite
  <2>5. w \in Seq(Tokens(submitted))
    BY <1>2, <2>1, <2>2, <2>4, WriteInv DEF AuditInv
  <2> QED
    BY <1>1, <1>2, <2>1, <2>2, <2>4, <2>5
<1> QED
  BY <1>3, <1>4

(* A restart makes no line whole. *)
LEMMA RestartedLines ==
  ASSUME AuditInv, CopyInv, AuditRestart
  PROVE  \A q : HasLine(q)' <=> HasLine(q)
<1>1. CASE file' = file
  BY <1>1 DEF HasLine, Line, Newline, NoRecord
<1>2. ASSUME NEW r, NEW w \in Writings(r), w \in Seq(Tokens(submitted)),
             file' = file \o w, w # <<Line(r), Newline>>, NEW q
      PROVE  HasLine(q)' <=> HasLine(q)
  <2>1. file \in Seq(Tokens(submitted))
    BY DEF AuditInv, AuditTypeOK
  <2> QED
    BY <1>2, <2>1, WholeLines
<1> QED
  BY <1>1, <1>2, RestartEffect

(* A restart leaves no call, and no record twice. *)
LEMMA RestartCopyInv ==
  ASSUME AuditInv, CopyInv, AuditRestart
  PROVE  CopyInv'
<1>1. UNCHANGED submitted /\ \A t \in Threads : append_pc'[t] = "idle"
  BY RestartEffect
<1>2. FileIsOfRecords' /\ AtMostOneCopy' /\ NoRecord' \notin submitted'
  <2>1. CASE file' = file
    BY <1>1, <2>1 DEF CopyInv, FileIsOfRecords, AtMostOneCopy, Newline, Line, Fragment,
                      NoRecord
  <2>2. ASSUME NEW t \in Threads, NEW w \in Writings(append_record[t]),
               append_pc[t] = "flush", append_record[t] \in submitted,
               w \in Seq(Tokens(submitted)), file' = file \o w
        PROVE  FileIsOfRecords' /\ AtMostOneCopy' /\ NoRecord' \notin submitted'
    <3>1. \A i \in 1 .. Len(file) : file[i].record # append_record[t]
      BY <2>2 DEF CopyInv, PendingIsFresh, Unwritten
    <3> QED
      BY <1>1, <2>2, <3>1, WriteCopies DEF AuditInv
  <2> QED
    BY <2>1, <2>2, RestartEffect
<1>3. CallsAreDistinct' /\ PendingIsFresh' /\ WholeMeansRecorded'
  BY <1>1 DEF CallsAreDistinct, PendingIsFresh, WholeMeansRecorded, Unwritten
<1> QED
  BY <1>2, <1>3 DEF CopyInv
=============================================================================
