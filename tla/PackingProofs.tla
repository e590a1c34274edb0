--------------------------- MODULE PackingProofs ---------------------------
(***************************************************************************)
(* Theorems about Packing, for every limit on datagrams and every request. *)
(***************************************************************************)
EXTENDS Packing, TLAPS

(* The samples of the request at hand that give lines, and a line of one of  *)
(* them, as it lies in a buffer.                                             *)
Translated == {s \in DOMAIN samples : samples[s] # Failed}

LineRecord(s, l) == [sample |-> s, line |-> l, bytes |-> ToDatapoints(samples[s])[l]]

LineRecords == UNION {{LineRecord(s, l) : l \in DOMAIN samples[s]} : s \in Translated}

Buffers == [size : Nat, lines : Seq(LineRecords)]

PackType ==
    /\ TypeOK
    /\ bytesBuffers \in Seq(Buffers)
    /\ line > 0 => samples[sample] # Failed

(* The samples of a request that give lines, and the lengths of the lines.  *)
LEMMA SampleBasics ==
    ASSUME samples \in Requests
    PROVE  /\ Len(samples) \in Nat
           /\ DOMAIN samples = 1..Len(samples)
           /\ \A s \in 1..Len(samples) : samples[s] # Failed =>
                 /\ samples[s] \in Seq(Nat \ {0})
                 /\ Len(samples[s]) \in Nat
                 /\ DOMAIN samples[s] = 1..Len(samples[s])
<1>1. samples \in Seq(Seq(Nat \ {0}) \cup {Failed})
  BY RequestsAssumption
<1>2. Len(samples) \in Nat /\ DOMAIN samples = 1..Len(samples)
  BY <1>1
<1>3. ASSUME NEW s \in 1..Len(samples), samples[s] # Failed
      PROVE  samples[s] \in Seq(Nat \ {0})
  BY <1>1, <1>2, <1>3
<1>4. QED
  BY <1>2, <1>3

(* The elements of a sequence of buffers. *)
LEMMA BufferElements ==
    ASSUME NEW q \in Seq(Buffers)
    PROVE  \A b \in DOMAIN q :
              /\ q[b] \in Buffers
              /\ q[b].size \in Nat
              /\ q[b].lines \in Seq(LineRecords)
              /\ Len(q[b].lines) \in Nat
              /\ DOMAIN q[b].lines = 1..Len(q[b].lines)
<1> SUFFICES ASSUME NEW b \in DOMAIN q
             PROVE  q[b] \in Buffers
  BY DEF Buffers
<1>1. QED
  OBVIOUS

(* What one line more does to a buffer. *)
LEMMA AppendedBasics ==
    ASSUME TypeOK, sample <= Len(samples), samples[sample] # Failed,
           line > 0, line <= Len(samples[sample]), NEW buffer \in Buffers
    PROVE  /\ samples[sample][line] \in Nat
           /\ Appended(buffer, line) \in Buffers
           /\ Appended(buffer, line).size = buffer.size + samples[sample][line]
           /\ Len(Appended(buffer, line).lines) = Len(buffer.lines) + 1
           /\ \A k \in 1..Len(buffer.lines) :
                 Appended(buffer, line).lines[k] = buffer.lines[k]
           /\ LET last == Appended(buffer, line).lines[Len(buffer.lines) + 1]
              IN  last.sample = sample /\ last.line = line
<1> DEFINE rec == LineRecord(sample, line)
<1>1. /\ sample \in Nat /\ line \in Nat /\ samples[sample][line] \in Nat
      /\ sample \in Translated /\ line \in DOMAIN samples[sample]
  BY SampleBasics DEF TypeOK, Translated
<1>2. rec \in LineRecords
  BY <1>1 DEF LineRecords
<1>3. Appended(buffer, line) =
        [size |-> buffer.size + samples[sample][line], lines |-> Append(buffer.lines, rec)]
  BY DEF Appended, LineRecord
<1>4. rec.sample = sample /\ rec.line = line
  BY DEF LineRecord
<1> HIDE DEF rec
<1>5. buffer.lines \in Seq(LineRecords) /\ buffer.size \in Nat
  BY DEF Buffers
<1>6. Append(buffer.lines, rec) \in Seq(LineRecords)
  BY <1>2, <1>5
<1>7. QED
  BY <1>1, <1>3, <1>4, <1>5, <1>6 DEF Buffers

LEMMA EmptyBasics ==
    Empty \in Buffers /\ Empty.size = 0 /\ Empty.lines = <<>> /\ Len(Empty.lines) = 0
BY DEF Empty, Buffers

(* A line in a buffer of its own. *)
LEMMA AloneBasics ==
    ASSUME TypeOK, sample <= Len(samples), samples[sample] # Failed,
           line > 0, line <= Len(samples[sample])
    PROVE  /\ Appended(Empty, line) \in Buffers
           /\ Len(Appended(Empty, line).lines) = 1
           /\ Appended(Empty, line).lines # <<>>
           /\ Appended(Empty, line).lines[1].sample = sample
           /\ Appended(Empty, line).lines[1].line = line
<1>1. Len(Empty.lines) = 0 /\ Empty \in Buffers
  BY EmptyBasics
<1>2. /\ Appended(Empty, line) \in Buffers
      /\ Len(Appended(Empty, line).lines) = Len(Empty.lines) + 1
      /\ LET last == Appended(Empty, line).lines[Len(Empty.lines) + 1]
         IN  last.sample = sample /\ last.line = line
  BY <1>1, AppendedBasics
<1>3. Len(Empty.lines) + 1 = 1
  BY <1>1
<1>4. /\ Len(Appended(Empty, line).lines) = 1
      /\ Appended(Empty, line).lines[1].sample = sample
      /\ Appended(Empty, line).lines[1].line = line
  BY <1>2, <1>3
<1>5. QED
  BY <1>2, <1>4

LEMMA PackInit == Init => PackType
<1> SUFFICES ASSUME Init PROVE PackType
  OBVIOUS
<1>1. bytesBuffers \in Seq(Buffers) /\ Len(bytesBuffers) = 1
  BY EmptyBasics DEF Init
<1>2. \A b \in DOMAIN bytesBuffers : bytesBuffers[b].size \in Nat
  BY <1>1, BufferElements
<1>3. Len(samples) \in Nat
  BY SampleBasics DEF Init
<1>4. TypeOK
  BY <1>1, <1>2, <1>3 DEF Init, TypeOK
<1>5. QED
  BY <1>1, <1>4 DEF Init, PackType

(* The two outcomes of Put: the current buffer grows, or another follows.   *)
Grows ==
    /\ Fits(samples[sample][line])
    /\ Len(bytesBuffers') = Len(bytesBuffers)
    /\ \A b \in 1..Len(bytesBuffers) :
          bytesBuffers'[b] = IF b = Len(bytesBuffers) THEN Appended(Current, line)
                             ELSE bytesBuffers[b]

Follows ==
    /\ ~Fits(samples[sample][line])
    /\ Len(bytesBuffers') = Len(bytesBuffers) + 1
    /\ \A b \in 1..Len(bytesBuffers) : bytesBuffers'[b] = bytesBuffers[b]
    /\ bytesBuffers'[Len(bytesBuffers) + 1] = Appended(Empty, line)

LEMMA PutBasics ==
    ASSUME PackType, Put
    PROVE  /\ Len(bytesBuffers) \in Nat \ {0}
           /\ Current \in Buffers
           /\ Current = bytesBuffers[Len(bytesBuffers)]
           /\ bytesBuffers' \in Seq(Buffers)
           /\ Grows \/ Follows
<1>1. bytesBuffers \in Seq(Buffers) /\ Len(bytesBuffers) \in Nat \ {0}
  BY DEF PackType, TypeOK
<1>2. Current \in Buffers /\ Current = bytesBuffers[Len(bytesBuffers)]
  BY <1>1 DEF Current
<1>3. Appended(Current, line) \in Buffers /\ Appended(Empty, line) \in Buffers
  BY <1>2, AppendedBasics, EmptyBasics DEF PackType, Put
<1>4. CASE Fits(samples[sample][line])
  <2>1. bytesBuffers' = [bytesBuffers EXCEPT ![Len(bytesBuffers)] = Appended(Current, line)]
    BY <1>4 DEF Put, Replaced
  <2>2. bytesBuffers' \in Seq(Buffers) /\ Len(bytesBuffers') = Len(bytesBuffers)
    BY <1>1, <1>3, <2>1
  <2>3. Grows
    BY <1>1, <1>4, <2>1, <2>2 DEF Grows
  <2>4. QED
    BY <1>1, <1>2, <2>2, <2>3
<1>5. CASE ~Fits(samples[sample][line])
  <2>1. bytesBuffers' = Append(bytesBuffers, Appended(Empty, line))
    BY <1>5 DEF Put
  <2>2. bytesBuffers' \in Seq(Buffers)
    BY <1>1, <1>3, <2>1
  <2>3. Follows
    BY <1>1, <1>3, <1>5, <2>1 DEF Follows
  <2>4. QED
    BY <1>1, <1>2, <2>2, <2>3
<1>6. QED
  BY <1>4, <1>5

LEMMA SameBuffers == UNCHANGED samples => Buffers' = Buffers
BY DEF Buffers, LineRecords, LineRecord, Translated

LEMMA PackStep == PackType /\ [Next]_vars => PackType'
<1> SUFFICES ASSUME PackType, [Next]_vars PROVE PackType'
  OBVIOUS
<1>1. CASE Ignore
  BY <1>1, SampleBasics, SameBuffers DEF Ignore, PackType, TypeOK
<1>2. CASE Translate
  <2>1. samples[sample] # Failed /\ Len(samples[sample]) \in Nat
    BY <1>2, SampleBasics DEF Translate, PackType, TypeOK
  <2>2. QED
    BY <1>2, <2>1, SameBuffers DEF Translate, PackType, TypeOK
<1>3. CASE Put
  <2>1. bytesBuffers' \in Seq(Buffers) /\ Len(bytesBuffers') > 0
    BY <1>3, PutBasics DEF Grows, Follows
  <2>2. samples[sample] # Failed /\ Len(samples[sample]) \in Nat
    BY <1>3, SampleBasics DEF Put, PackType, TypeOK
  <2>3. /\ UNCHANGED <<udp, samples, sample, ignoredSamples>>
        /\ line' = line + 1
        /\ sample <= Len(samples) /\ line <= Len(samples[sample])
    BY <1>3 DEF Put
  <2>4. \A b \in DOMAIN bytesBuffers' : bytesBuffers'[b].size \in Nat
    BY <2>1, BufferElements
  <2>5. TypeOK'
    BY <2>1, <2>2, <2>3, <2>4 DEF PackType, TypeOK
  <2>6. QED
    BY <2>1, <2>2, <2>3, <2>5, SameBuffers DEF PackType
<1>4. CASE NextSample
  BY <1>4, SampleBasics, SameBuffers DEF NextSample, PackType, TypeOK
<1>5. CASE Return \/ UNCHANGED vars
  BY <1>5, SameBuffers DEF Return, vars, PackType, TypeOK
<1>6. QED
  BY <1>1, <1>2, <1>3, <1>4, <1>5 DEF Next

(* The state of prepareWrite keeps to its types. *)
THEOREM PackingTypeCorrect == Spec => []TypeOK
<1>1. PackType => TypeOK
  BY DEF PackType
<1>2. QED
  BY PackInit, PackStep, <1>1, PTL DEF Spec

(* What the other actions leave alone. *)
LEMMA OnlyPutWrites ==
    [Next]_vars => Put \/ UNCHANGED <<bytesBuffers, samples, udp>>
BY DEF Next, Ignore, Translate, NextSample, Return, vars

(* A datagram is within udpMaxBytes, or a single line that is not; a stream *)
(* has a single buffer.                                                     *)
THEOREM PackingDatagramsFit == Spec => []DatagramsFit
<1>1. Init => DatagramsFit
  BY EmptyBasics, BytesAssumption DEF Init, DatagramsFit, Lines
<1>2. PackType /\ DatagramsFit /\ [Next]_vars => DatagramsFit'
  <2> SUFFICES ASSUME PackType, DatagramsFit, [Next]_vars PROVE DatagramsFit'
    OBVIOUS
  <2>1. CASE UNCHANGED <<bytesBuffers, samples, udp>>
    BY <2>1 DEF DatagramsFit, Lines
  <2>2. CASE Put
    <3>1. /\ Len(bytesBuffers) \in Nat \ {0} /\ bytesBuffers \in Seq(Buffers)
          /\ bytesBuffers' \in Seq(Buffers) /\ Current \in Buffers
          /\ udp' = udp
      BY <2>2, PutBasics DEF PackType, Put
    <3>2. /\ Appended(Current, line).size = Current.size + samples[sample][line]
          /\ Len(Appended(Empty, line).lines) = 1
      BY <2>2, <3>1, AppendedBasics, AloneBasics DEF PackType, Put
    <3>3. CASE Grows
      BY <3>1, <3>2, <3>3 DEF Grows, Fits, DatagramsFit, Lines
    <3>4. CASE Follows
      BY <3>1, <3>2, <3>4 DEF Follows, Fits, DatagramsFit, Lines
    <3>5. QED
      BY <2>2, <3>3, <3>4, PutBasics
  <2>3. QED
    BY <2>1, <2>2, OnlyPutWrites
<1>3. QED
  BY <1>1, <1>2, PackInit, PackStep, PTL DEF Spec

(* A datagram ends only where the next line has no room in it. *)
THEOREM PackingClosedWhenFull == Spec => []ClosedWhenFull
<1>1. Init => ClosedWhenFull
  BY DEF Init, ClosedWhenFull
<1>2. PackType /\ ClosedWhenFull /\ [Next]_vars => ClosedWhenFull'
  <2> SUFFICES ASSUME PackType, ClosedWhenFull, [Next]_vars PROVE ClosedWhenFull'
    OBVIOUS
  <2>1. CASE UNCHANGED <<bytesBuffers, samples, udp>>
    BY <2>1 DEF ClosedWhenFull, Lines
  <2>2. CASE Put
    <3>1. /\ Len(bytesBuffers) \in Nat \ {0} /\ bytesBuffers \in Seq(Buffers)
          /\ Current \in Buffers /\ Current = bytesBuffers[Len(bytesBuffers)]
          /\ samples' = samples
          /\ samples[sample][line] \in Nat
      BY <2>2, PutBasics, AppendedBasics DEF PackType, Put
    <3>2. SUFFICES ASSUME NEW b \in 2..Len(bytesBuffers')
                   PROVE  /\ Lines(b)' # <<>>
                          /\ bytesBuffers'[b - 1].size
                               + samples[Lines(b)'[1].sample][Lines(b)'[1].line] > UdpMaxBytes
      BY <3>1 DEF ClosedWhenFull
    <3>3. CASE b <= Len(bytesBuffers)
      <4>1. /\ bytesBuffers[b].lines # <<>>
            /\ bytesBuffers[b - 1].size
                 + samples[bytesBuffers[b].lines[1].sample][bytesBuffers[b].lines[1].line]
                 > UdpMaxBytes
        BY <3>1, <3>3 DEF ClosedWhenFull, Lines
      <4>2. bytesBuffers'[b - 1] = bytesBuffers[b - 1]
        BY <2>2, <3>1, <3>3, PutBasics DEF Grows, Follows
      <4>3. bytesBuffers'[b] = bytesBuffers[b] \/ bytesBuffers'[b] = Appended(bytesBuffers[b], line)
        BY <2>2, <3>1, <3>3, PutBasics DEF Grows, Follows
      <4>4. /\ bytesBuffers[b] \in Buffers
            /\ bytesBuffers[b].lines \in Seq(LineRecords)
        BY <3>1, <3>3, BufferElements
      <4>5. 1 \in 1..Len(bytesBuffers[b].lines)
        BY <4>1, <4>4
      <4>6. Len(Appended(bytesBuffers[b], line).lines) > 0
        BY <2>2, <4>4, AppendedBasics DEF PackType, Put
      <4>7. bytesBuffers'[b].lines # <<>>
        BY <4>1, <4>3, <4>6
      <4>8. bytesBuffers'[b].lines[1] = bytesBuffers[b].lines[1]
        BY <2>2, <4>3, <4>4, <4>5, AppendedBasics DEF PackType, Put
      <4>9. QED
        BY <4>1, <4>2, <4>7, <4>8 DEF Lines
    <3>4. CASE b > Len(bytesBuffers)
      <4>1. Follows /\ b = Len(bytesBuffers) + 1
        BY <2>2, <3>1, <3>4, PutBasics DEF Grows, Follows
      <4>2. bytesBuffers'[b] = Appended(Empty, line) /\ bytesBuffers'[b - 1] = Current
        BY <3>1, <4>1 DEF Follows
      <4>3. /\ Len(Appended(Empty, line).lines) = 1
            /\ Appended(Empty, line).lines[1].sample = sample
            /\ Appended(Empty, line).lines[1].line = line
        BY <2>2, AloneBasics DEF PackType, Put
      <4>4. Current.size + samples[sample][line] > UdpMaxBytes
        BY <3>1, <4>1, BytesAssumption DEF Follows, Fits, Buffers
      <4>5. Appended(Empty, line).lines # <<>>
        BY <2>2, AloneBasics DEF PackType, Put
      <4>6. QED
        BY <4>2, <4>3, <4>4, <4>5 DEF Lines
    <3>5. QED
      BY <3>1, <3>3, <3>4
  <2>3. QED
    BY <2>1, <2>2, OnlyPutWrites
<1>3. QED
  BY <1>1, <1>2, PackInit, PackStep, PTL DEF Spec

(* Put leaves the lines in their places, and adds its own behind them.      *)
LEMMA PutPlaces ==
    ASSUME PackType, Put
    PROVE  LET B == Len(bytesBuffers')
               K == Len(bytesBuffers'[B].lines)
           IN  /\ B \in DOMAIN bytesBuffers' /\ K \in DOMAIN bytesBuffers'[B].lines
               /\ bytesBuffers'[B].lines[K].sample = sample
               /\ bytesBuffers'[B].lines[K].line = line
               /\ \A b \in DOMAIN bytesBuffers : \A k \in DOMAIN bytesBuffers[b].lines :
                     /\ b \in DOMAIN bytesBuffers' /\ k \in DOMAIN bytesBuffers'[b].lines
                     /\ bytesBuffers'[b].lines[k] = bytesBuffers[b].lines[k]
               /\ \A b \in DOMAIN bytesBuffers' : \A k \in DOMAIN bytesBuffers'[b].lines :
                     \/ b = B /\ k = K
                     \/ b \in DOMAIN bytesBuffers /\ k \in DOMAIN bytesBuffers[b].lines
<1> DEFINE N == Len(bytesBuffers)
           B == Len(bytesBuffers')
<1>1. /\ bytesBuffers \in Seq(Buffers) /\ bytesBuffers' \in Seq(Buffers)
      /\ N \in Nat \ {0} /\ Current \in Buffers /\ Current = bytesBuffers[N]
      /\ DOMAIN bytesBuffers = 1..N /\ DOMAIN bytesBuffers' = 1..B
      /\ Grows \/ Follows
  BY PutBasics DEF PackType
<1>2. /\ \A b \in 1..N : DOMAIN bytesBuffers[b].lines = 1..Len(bytesBuffers[b].lines)
      /\ \A b \in 1..B : DOMAIN bytesBuffers'[b].lines = 1..Len(bytesBuffers'[b].lines)
      /\ \A b \in 1..N : Len(bytesBuffers[b].lines) \in Nat
  BY <1>1, BufferElements
<1>3. CASE Grows
  <2> DEFINE M == Len(Current.lines)
             G == Appended(Current, line)
  <2>1. B = N /\ bytesBuffers'[N] = G
        /\ \A b \in 1..N : b # N => bytesBuffers'[b] = bytesBuffers[b]
    <3>1. N \in 1..N
      BY <1>1
    <3>2. /\ B = N
          /\ \A b \in 1..N : bytesBuffers'[b] = IF b = N THEN G ELSE bytesBuffers[b]
      BY <1>3 DEF Grows
    <3> HIDE DEF G, N, B
    <3>3. QED
      BY <3>1, <3>2
  <2>2. /\ Len(G.lines) = M + 1
        /\ G.lines[M + 1].sample = sample /\ G.lines[M + 1].line = line
        /\ \A k \in 1..M : G.lines[k] = Current.lines[k]
    BY <1>1, AppendedBasics DEF PackType, Put
  <2>3. M \in Nat /\ M = Len(bytesBuffers[N].lines)
    BY <1>1, <1>2
  <2> HIDE DEF G, M
  <2>4. ASSUME NEW b \in 1..N, NEW k \in 1..Len(bytesBuffers[b].lines)
        PROVE  /\ k \in 1..Len(bytesBuffers'[b].lines)
               /\ bytesBuffers'[b].lines[k] = bytesBuffers[b].lines[k]
    <3>1. CASE b = N
      <4>1. bytesBuffers'[b] = G /\ bytesBuffers[b] = Current
        BY <1>1, <2>1, <3>1
      <4>2. k \in 1..M
        BY <2>3, <3>1
      <4>3. k \in 1..(M + 1)
        BY <2>3, <4>2
      <4>4. QED
        BY <2>2, <4>1, <4>2, <4>3
    <3>2. CASE b # N
      BY <2>1, <3>2
    <3>3. QED
      BY <3>1, <3>2
  <2>5. ASSUME NEW b \in 1..N, NEW k \in 1..Len(bytesBuffers'[b].lines)
        PROVE  (b = N /\ k = M + 1) \/ k \in 1..Len(bytesBuffers[b].lines)
    BY <2>1, <2>2, <2>3
  <2>6. /\ bytesBuffers'[B].lines[M + 1].sample = sample
        /\ bytesBuffers'[B].lines[M + 1].line = line
        /\ Len(bytesBuffers'[B].lines) = M + 1 /\ M + 1 \in 1..(M + 1)
    BY <2>1, <2>2, <2>3
  <2>7. B \in 1..B
    <3>1. N \in Nat \ {0} /\ B = N
      BY <1>1, <2>1
    <3> HIDE DEF N, B
    <3>2. QED
      BY <3>1
  <2>8. \A b \in DOMAIN bytesBuffers : \A k \in DOMAIN bytesBuffers[b].lines :
           /\ b \in DOMAIN bytesBuffers' /\ k \in DOMAIN bytesBuffers'[b].lines
           /\ bytesBuffers'[b].lines[k] = bytesBuffers[b].lines[k]
    <3>1. DOMAIN bytesBuffers = 1..N /\ DOMAIN bytesBuffers' = 1..N
      BY <1>1, <2>1
    <3>2. \A b \in 1..N : /\ DOMAIN bytesBuffers[b].lines = 1..Len(bytesBuffers[b].lines)
                          /\ DOMAIN bytesBuffers'[b].lines = 1..Len(bytesBuffers'[b].lines)
      BY <1>2, <2>1
    <3> HIDE DEF N, B
    <3>3. QED
      BY <2>4, <3>1, <3>2
  <2>9. \A b \in DOMAIN bytesBuffers' : \A k \in DOMAIN bytesBuffers'[b].lines :
           \/ b = N /\ k = M + 1
           \/ b \in DOMAIN bytesBuffers /\ k \in DOMAIN bytesBuffers[b].lines
    BY <1>1, <1>2, <2>1, <2>5
  <2>10. B \in DOMAIN bytesBuffers' /\ M + 1 \in DOMAIN bytesBuffers'[B].lines
    BY <1>1, <1>2, <2>6, <2>7
  <2>11. QED
    BY <2>1, <2>6, <2>8, <2>9, <2>10
<1>4. CASE Follows
  <2> DEFINE A == Appended(Empty, line)
  <2>1. B = N + 1 /\ bytesBuffers'[N + 1] = A
        /\ \A b \in 1..N : bytesBuffers'[b] = bytesBuffers[b]
    BY <1>1, <1>4 DEF Follows
  <2>2. Len(A.lines) = 1 /\ A.lines[1].sample = sample /\ A.lines[1].line = line
    BY AloneBasics DEF PackType, Put
  <2> HIDE DEF A
  <2>3. ASSUME NEW b \in 1..N, NEW k \in 1..Len(bytesBuffers[b].lines)
        PROVE  /\ b \in 1..B /\ k \in 1..Len(bytesBuffers'[b].lines)
               /\ bytesBuffers'[b].lines[k] = bytesBuffers[b].lines[k]
    BY <1>1, <2>1
  <2>4. ASSUME NEW b \in 1..B, NEW k \in 1..Len(bytesBuffers'[b].lines)
        PROVE  (b = N + 1 /\ k = 1) \/ (b \in 1..N /\ k \in 1..Len(bytesBuffers[b].lines))
    <3>1. N \in Nat \ {0} /\ B = N + 1
      BY <1>1, <2>1
    <3>2. b = N + 1 \/ b \in 1..N
      <4> HIDE DEF N, B
      <4>1. QED
        BY <3>1
    <3>3. CASE b = N + 1
      <4>1. k \in 1..Len(A.lines)
        BY <2>1, <3>3
      <4>2. QED
        BY <2>2, <3>3, <4>1
    <3>4. CASE b \in 1..N
      BY <2>1, <3>4
    <3>5. QED
      BY <3>2, <3>3, <3>4
  <2>5. /\ bytesBuffers'[B].lines[1].sample = sample
        /\ bytesBuffers'[B].lines[1].line = line
        /\ Len(bytesBuffers'[B].lines) = 1 /\ B \in 1..B
    <3>1. B \in 1..B
      BY <1>1, <2>1
    <3> HIDE DEF B, N
    <3>2. QED
      BY <2>1, <2>2, <3>1
  <2>6. QED
    BY <1>1, <1>2, <2>1, <2>3, <2>4, <2>5, SMTT(30)
<1>5. QED
  BY <1>1, <1>3, <1>4

(* The lines that come before the cursor, and only these, are in a buffer,  *)
(* one after the other.                                                     *)
Cursor == [sample |-> sample, line |-> line]

IsPlaced(s, l) ==
    \E b \in DOMAIN bytesBuffers : \E k \in DOMAIN Lines(b) :
        Lines(b)[k].sample = s /\ Lines(b)[k].line = l

PlacedToCursor ==
    \A s \in DOMAIN samples : samples[s] # Failed =>
        \A l \in DOMAIN samples[s] :
            s < sample \/ (s = sample /\ l < line) => IsPlaced(s, l)

NonePastCursor ==
    \A b \in DOMAIN bytesBuffers : \A k \in DOMAIN Lines(b) : Precedes(Lines(b)[k], Cursor)

InOrder ==
    \A b1, b2 \in DOMAIN bytesBuffers :
        \A k1 \in DOMAIN Lines(b1), k2 \in DOMAIN Lines(b2) :
            b1 < b2 \/ (b1 = b2 /\ k1 < k2) => Precedes(Lines(b1)[k1], Lines(b2)[k2])

PlacedInv == PlacedToCursor /\ NonePastCursor /\ InOrder

LEMMA PlacedInit == Init => PlacedInv
<1> SUFFICES ASSUME Init PROVE PlacedInv
  OBVIOUS
<1>1. bytesBuffers = <<Empty>> /\ \A b \in DOMAIN bytesBuffers : Lines(b) = <<>>
  BY EmptyBasics DEF Init, Lines
<1>2. NonePastCursor /\ InOrder
  BY <1>1 DEF NonePastCursor, InOrder
<1>3. PlacedToCursor
  BY SampleBasics DEF Init, PlacedToCursor
<1>4. QED
  BY <1>2, <1>3 DEF PlacedInv

LEMMA PlacedLines ==
    ASSUME PackType, NEW b \in DOMAIN bytesBuffers, NEW k \in DOMAIN Lines(b)
    PROVE  /\ Lines(b)[k].sample \in Nat /\ Lines(b)[k].line \in Nat
           /\ \E s \in Translated : \E l \in DOMAIN samples[s] :
                 Lines(b)[k] = LineRecord(s, l)
<1>1. Lines(b) \in Seq(LineRecords)
  BY BufferElements DEF PackType, Lines
<1>2. Lines(b)[k] \in LineRecords
  BY <1>1
<1>3. \E s \in Translated : \E l \in DOMAIN samples[s] : Lines(b)[k] = LineRecord(s, l)
  BY <1>2 DEF LineRecords
<1>4. \A s \in Translated : \A l \in DOMAIN samples[s] : s \in Nat /\ l \in Nat
  BY SampleBasics DEF Translated, PackType, TypeOK
<1>5. QED
  BY <1>3, <1>4 DEF LineRecord

(* No line of a sample is written after the last one.                        *)
LEMMA LastIsLast ==
    ASSUME NEW lengths \in Seq(Nat \ {0}), lengths # <<>>,
           NEW place \in 1..lengths[Len(lengths)]
    PROVE  LastWriter(lengths, place) = Len(lengths)
<1> DEFINE n == Len(lengths)
           Last(l) == /\ lengths[l] >= place
                      /\ \A k \in DOMAIN lengths : lengths[k] >= place => k <= l
<1>1. n \in Nat \ {0} /\ DOMAIN lengths = 1..n /\ n \in DOMAIN lengths
  OBVIOUS
<1>2. lengths[n] \in Nat /\ lengths[n] >= place
  BY <1>1
<1>3. Last(n)
  BY <1>1, <1>2
<1>4. ASSUME NEW l \in DOMAIN lengths, Last(l) PROVE l = n
  <2>1. n <= l
    BY <1>1, <1>2, <1>4
  <2>2. QED
    BY <1>1, <2>1
<1> HIDE DEF Last
<1>5. (CHOOSE l \in DOMAIN lengths : Last(l)) = n
  BY <1>1, <1>3, <1>4
<1>6. QED
  BY <1>5 DEF LastWriter, Last

(* So the last line of a sample holds its own bytes in any buffer.           *)
LEMMA LastLines ==
    ASSUME PackType, NEW b \in DOMAIN bytesBuffers, NEW k \in DOMAIN Lines(b)
    PROVE  LastLineHolds(Lines(b)[k])
<1>0. PICK s \in Translated : \E l \in DOMAIN samples[s] : Lines(b)[k] = LineRecord(s, l)
  BY PlacedLines
<1>1. PICK l \in DOMAIN samples[s] : Lines(b)[k] = LineRecord(s, l)
  BY <1>0
<1>2. samples[s] \in Seq(Nat \ {0}) /\ samples[s] # <<>>
  BY SampleBasics DEF Translated, PackType, TypeOK
<1>3. ASSUME l = Len(samples[s])
      PROVE  \A place \in DOMAIN LineRecord(s, l).bytes : LineRecord(s, l).bytes[place] = l
  <2>1. /\ LineRecord(s, l).bytes = [place \in 1..samples[s][l] |-> LastWriter(samples[s], place)]
    BY DEF LineRecord, ToDatapoints
  <2>2. \A place \in 1..samples[s][l] : LastWriter(samples[s], place) = l
    BY <1>2, <1>3, LastIsLast
  <2>3. QED
    BY <2>1, <2>2
<1>4. QED
  BY <1>1, <1>3 DEF LastLineHolds, LineRecord

(* A cursor that moves on past no line keeps the invariant. *)
LEMMA CursorMoves ==
    ASSUME PackType, PlacedInv, UNCHANGED <<samples, bytesBuffers>>,
           [Next]_vars, ~Put
    PROVE  PlacedInv'
<1>1. \A b \in DOMAIN bytesBuffers : \A k \in DOMAIN Lines(b) :
         Lines(b)[k].sample \in Nat /\ Lines(b)[k].line \in Nat
  BY PlacedLines
<1>2. sample \in Nat /\ line \in Nat /\ Len(samples) \in Nat /\ DOMAIN samples = 1..Len(samples)
  BY SampleBasics DEF PackType, TypeOK
<1>3. \A s \in DOMAIN samples : samples[s] # Failed => DOMAIN samples[s] = 1..Len(samples[s])
  BY SampleBasics DEF PackType, TypeOK
<1>4. \/ sample' = sample /\ line' = line
      \/ samples[sample] = Failed /\ line' = line /\ sample' = sample + 1
      \/ line = 0 /\ line' = 1 /\ sample' = sample
      \/ line > Len(samples[sample]) /\ line' = 0 /\ sample' = sample + 1
  BY DEF Next, Ignore, Translate, NextSample, Return, vars
<1>5. NonePastCursor'
  <2> SUFFICES ASSUME NEW b \in DOMAIN bytesBuffers, NEW k \in DOMAIN Lines(b)
               PROVE  Precedes(Lines(b)[k], Cursor')
    BY DEF NonePastCursor, Lines
  <2>1. Precedes(Lines(b)[k], Cursor)
    BY DEF PlacedInv, NonePastCursor
  <2>2. /\ Cursor.sample = sample /\ Cursor.line = line
        /\ Cursor'.sample = sample' /\ Cursor'.line = line'
    BY DEF Cursor
  <2>3. Lines(b)[k].sample \in Nat /\ Lines(b)[k].line \in Nat
    BY <1>1
  <2>4. QED
    BY <1>2, <1>4, <2>1, <2>2, <2>3 DEF Precedes
<1>6. PlacedToCursor'
  <2> SUFFICES ASSUME NEW s \in DOMAIN samples, samples[s] # Failed,
                      NEW l \in DOMAIN samples[s],
                      s < sample' \/ (s = sample' /\ l < line')
               PROVE  IsPlaced(s, l)
    BY DEF PlacedToCursor, IsPlaced, Lines
  <2>1. s < sample \/ (s = sample /\ l < line)
    <3>1. s \in Nat /\ l \in Nat /\ l > 0
      BY <1>2, <1>3
    <3>2. CASE sample' = sample /\ line' = line
      BY <3>2
    <3>3. CASE samples[sample] = Failed /\ line' = line /\ sample' = sample + 1
      BY <1>2, <3>1, <3>3 DEF PackType
    <3>4. CASE line = 0 /\ line' = 1 /\ sample' = sample
      BY <3>1, <3>4
    <3>5. CASE line > Len(samples[sample]) /\ line' = 0 /\ sample' = sample + 1
      <4>1. s <= sample
        BY <1>2, <3>1, <3>5
      <4>2. s = sample => l <= Len(samples[s])
        BY <1>3
      <4>3. Len(samples[s]) \in Nat
        BY SampleBasics DEF PackType, TypeOK
      <4>4. QED
        BY <1>2, <3>1, <3>5, <4>1, <4>2, <4>3
    <3>6. QED
      BY <1>4, <3>2, <3>3, <3>4, <3>5
  <2>2. QED
    BY <2>1 DEF PlacedInv, PlacedToCursor
<1>7. InOrder'
  BY DEF PlacedInv, InOrder, Lines
<1>8. QED
  BY <1>5, <1>6, <1>7 DEF PlacedInv

(* Put moves the cursor past the line that it places. *)
LEMMA PutKeepsPlaced == ASSUME PackType, PlacedInv, Put PROVE PlacedInv'
<1> DEFINE B == Len(bytesBuffers')
           K == Len(bytesBuffers'[B].lines)
           At(b, k) == bytesBuffers[b].lines[k]
           New(b, k) == bytesBuffers'[b].lines[k]
<1>1. /\ B \in DOMAIN bytesBuffers' /\ K \in DOMAIN bytesBuffers'[B].lines
      /\ New(B, K).sample = sample /\ New(B, K).line = line
  BY PutPlaces
<1>2. \A b \in DOMAIN bytesBuffers : \A k \in DOMAIN bytesBuffers[b].lines :
         /\ b \in DOMAIN bytesBuffers' /\ k \in DOMAIN bytesBuffers'[b].lines
         /\ New(b, k) = At(b, k)
  BY PutPlaces
<1>3. \A b \in DOMAIN bytesBuffers' : \A k \in DOMAIN bytesBuffers'[b].lines :
         \/ b = B /\ k = K
         \/ b \in DOMAIN bytesBuffers /\ k \in DOMAIN bytesBuffers[b].lines
  BY PutPlaces
<1>4. /\ \A b \in DOMAIN bytesBuffers' : b \in Nat /\ b <= B
      /\ \A k \in DOMAIN bytesBuffers'[B].lines : k \in Nat /\ k <= K
  <2>1. bytesBuffers' \in Seq(Buffers)
    BY PutBasics
  <2>2. DOMAIN bytesBuffers'[B].lines = 1..K
    BY <1>1, <2>1, BufferElements
  <2>3. QED
    BY <2>1, <2>2
<1>5. /\ sample \in Nat /\ line \in Nat /\ sample' = sample /\ line' = line + 1
      /\ samples' = samples
      /\ Len(samples) \in Nat /\ DOMAIN samples = 1..Len(samples)
      /\ \A s \in DOMAIN samples : samples[s] # Failed => DOMAIN samples[s] = 1..Len(samples[s])
  BY SampleBasics DEF Put, PackType, TypeOK
<1>6. \A b \in DOMAIN bytesBuffers : \A k \in DOMAIN bytesBuffers[b].lines :
         /\ At(b, k).sample \in Nat /\ At(b, k).line \in Nat
         /\ Precedes(At(b, k), Cursor)
  BY PlacedLines DEF PlacedInv, NonePastCursor, Lines
<1>7. /\ Cursor.sample = sample /\ Cursor.line = line
      /\ Cursor'.sample = sample' /\ Cursor'.line = line'
  BY DEF Cursor
<1>8. PlacedToCursor'
  <2> SUFFICES ASSUME NEW s \in DOMAIN samples, samples[s] # Failed,
                      NEW l \in DOMAIN samples[s],
                      s < sample' \/ (s = sample' /\ l < line')
               PROVE  \E b \in DOMAIN bytesBuffers' : \E k \in DOMAIN bytesBuffers'[b].lines :
                         New(b, k).sample = s /\ New(b, k).line = l
    BY <1>5 DEF PlacedToCursor, IsPlaced, Lines
  <2>1. CASE s = sample /\ l = line
    BY <1>1, <2>1
  <2>2. CASE s < sample \/ (s = sample /\ l < line)
    <3>1. PICK b \in DOMAIN bytesBuffers : \E k \in DOMAIN bytesBuffers[b].lines :
             At(b, k).sample = s /\ At(b, k).line = l
      BY <2>2 DEF PlacedInv, PlacedToCursor, IsPlaced, Lines
    <3>2. PICK k \in DOMAIN bytesBuffers[b].lines : At(b, k).sample = s /\ At(b, k).line = l
      BY <3>1
    <3>3. QED
      BY <1>2, <3>2
  <2>3. s < sample \/ (s = sample /\ l <= line)
    BY <1>5
  <2>4. QED
    BY <1>5, <2>1, <2>2, <2>3
<1>9. NonePastCursor'
  <2> SUFFICES ASSUME NEW b \in DOMAIN bytesBuffers', NEW k \in DOMAIN bytesBuffers'[b].lines
               PROVE  Precedes(New(b, k), Cursor')
    BY DEF NonePastCursor, Lines
  <2>1. CASE b = B /\ k = K
    <3>1. New(b, k).sample = sample /\ New(b, k).line = line
      BY <1>1, <2>1
    <3>2. QED
      BY <1>5, <1>7, <3>1 DEF Precedes
  <2>2. CASE b \in DOMAIN bytesBuffers /\ k \in DOMAIN bytesBuffers[b].lines
    <3>1. /\ New(b, k) = At(b, k) /\ Precedes(At(b, k), Cursor)
          /\ At(b, k).sample \in Nat /\ At(b, k).line \in Nat
      BY <1>2, <1>6, <2>2
    <3>2. QED
      BY <1>5, <1>7, <3>1 DEF Precedes
  <2>3. QED
    BY <1>3, <2>1, <2>2
<1>10. InOrder'
  <2> SUFFICES ASSUME NEW b1 \in DOMAIN bytesBuffers', NEW b2 \in DOMAIN bytesBuffers',
                      NEW k1 \in DOMAIN bytesBuffers'[b1].lines,
                      NEW k2 \in DOMAIN bytesBuffers'[b2].lines,
                      b1 < b2 \/ (b1 = b2 /\ k1 < k2)
               PROVE  Precedes(New(b1, k1), New(b2, k2))
    BY DEF InOrder, Lines
  <2>1. ~(b1 = B /\ k1 = K)
    <3>1. b1 \in Nat /\ b2 \in Nat /\ b2 <= B
      BY <1>4
    <3>2. b2 = B => k2 \in Nat /\ k2 <= K
      BY <1>4
    <3>3. b1 = B => k1 \in Nat
      BY <1>4
    <3> HIDE DEF B, K
    <3>4. QED
      BY <3>1, <3>2, <3>3
  <2>2. b1 \in DOMAIN bytesBuffers /\ k1 \in DOMAIN bytesBuffers[b1].lines
    BY <1>3, <2>1
  <2>3. New(b1, k1) = At(b1, k1) /\ Precedes(At(b1, k1), Cursor)
    BY <1>2, <1>6, <2>2
  <2>4. CASE b2 = B /\ k2 = K
    <3>1. New(b2, k2).sample = sample /\ New(b2, k2).line = line
      BY <1>1, <2>4
    <3>2. QED
      BY <1>7, <2>3, <3>1 DEF Precedes
  <2>5. CASE b2 \in DOMAIN bytesBuffers /\ k2 \in DOMAIN bytesBuffers[b2].lines
    <3>1. New(b2, k2) = At(b2, k2)
      BY <1>2, <2>5
    <3>2. Precedes(At(b1, k1), At(b2, k2))
      BY <2>2, <2>5 DEF PlacedInv, InOrder, Lines
    <3>3. QED
      BY <2>3, <3>1, <3>2
  <2>6. QED
    BY <1>3, <2>4, <2>5
<1>11. QED
  BY <1>8, <1>9, <1>10 DEF PlacedInv

(* Every line of the samples that are done is in one place of one buffer,   *)
(* the lines are in the order of the samples and of their paths, and the    *)
(* last line of a sample holds its own bytes.                               *)
THEOREM PackingEveryLineOnce == Spec => []EveryLineOnce
<1>1. PackType /\ PlacedInv /\ [Next]_vars => PlacedInv'
  BY PutKeepsPlaced, CursorMoves, OnlyPutWrites
<1>2. PackType /\ PlacedInv => EveryLineOnce
  <2> SUFFICES ASSUME PackType, PlacedInv PROVE EveryLineOnce
    OBVIOUS
  <2>1. ASSUME NEW s \in 1..(sample - 1), samples[s] # Failed, NEW l \in DOMAIN samples[s]
        PROVE  IsPlaced(s, l)
    <3>1. s \in DOMAIN samples /\ s < sample
      BY SampleBasics DEF PackType, TypeOK
    <3>2. QED
      BY <2>1, <3>1 DEF PlacedInv, PlacedToCursor
  <2>2. \A b \in DOMAIN bytesBuffers : \A k \in DOMAIN Lines(b) : LastLineHolds(Lines(b)[k])
    BY LastLines
  <2>3. QED
    BY <2>1, <2>2 DEF PlacedInv, InOrder, IsPlaced, EveryLineOnce
<1>3. QED
  BY <1>1, <1>2, PackInit, PackStep, PlacedInit, PTL DEF Spec

=============================================================================
