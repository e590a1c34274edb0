------------------------------ MODULE Packing ------------------------------
(***************************************************************************)
(* prepareWrite and ToDatapoints: the samples of a /write request become   *)
(* lines, and the lines fill one buffer, or for UDP as many buffers of     *)
(* udpMaxBytes as they need.                                               *)
(*                                                                         *)
(* A line is known by its sample, its path and its length; a byte of it by *)
(* its place in the line.  ToDatapoints writes all lines of a sample into  *)
(* one bytes.Buffer that it resets in between, so that the slices it       *)
(* returns share their bytes: a slice reads, at each place, what the last  *)
(* line that reaches that place has put there.                             *)
(***************************************************************************)
EXTENDS Naturals, Sequences, FiniteSets

CONSTANTS
    UdpMaxBytes,
    Requests,       \* the requests: sequences of samples
    Failed          \* a sample that gives an error, and no line

(* A sample is the sequence of the lengths of its lines.                    *)
ASSUME RequestsAssumption == Requests \subseteq Seq(Seq(Nat \ {0}) \cup {Failed})
ASSUME BytesAssumption == UdpMaxBytes \in Nat \ {0}

VARIABLES
    udp,            \* CarbonTransport is "udp"
    samples,
    sample,         \* the sample at hand
    line,           \* the line of it that is next, 0 before ToDatapoints
    bytesBuffers,   \* [size, lines]: the buffers, the current one last
    ignoredSamples

vars == <<udp, samples, sample, line, bytesBuffers, ignoredSamples>>

Empty == [size |-> 0, lines |-> <<>>]

Current == bytesBuffers[Len(bytesBuffers)]

Init ==
    /\ udp \in BOOLEAN
    /\ samples \in Requests
    /\ sample = 1
    /\ line = 0
    /\ bytesBuffers = <<Empty>>
    /\ ignoredSamples = 0

(* The line of the sample that was the last to write the byte at a place.   *)
LastWriter(lengths, place) ==
    CHOOSE l \in DOMAIN lengths :
        /\ lengths[l] >= place
        /\ \A k \in DOMAIN lengths : lengths[k] >= place => k <= l

(* The datapoints of a sample: for each line, whose bytes its slice holds.  *)
ToDatapoints(lengths) ==
    [l \in DOMAIN lengths |-> [place \in 1..lengths[l] |-> LastWriter(lengths, place)]]

(* The sample has no value or its template failed: it is counted. *)
Ignore ==
    /\ sample <= Len(samples)
    /\ samples[sample] = Failed
    /\ ignoredSamples' = ignoredSamples + 1
    /\ sample' = sample + 1
    /\ UNCHANGED <<udp, samples, line, bytesBuffers>>

(* Mutant: every sample is counted, whether it is ignored or not. *)
Translate_Counts ==
    /\ sample <= Len(samples)
    /\ samples[sample] # Failed
    /\ line = 0
    /\ line' = 1
    /\ ignoredSamples' = ignoredSamples + 1
    /\ UNCHANGED <<udp, samples, sample, bytesBuffers>>

Translate ==
    /\ sample <= Len(samples)
    /\ samples[sample] # Failed
    /\ line = 0
    /\ line' = 1
    /\ UNCHANGED <<udp, samples, sample, bytesBuffers, ignoredSamples>>

(* Mutant: the limit is compared with what the buffer holds already. *)
Fits_Late(length) == ~udp \/ Current.size <= UdpMaxBytes

Fits(length) == ~udp \/ Current.size + length <= UdpMaxBytes

Appended(buffer, l) ==
    [size  |-> buffer.size + samples[sample][l],
     lines |-> Append(buffer.lines,
                 [sample |-> sample, line |-> l, bytes |-> ToDatapoints(samples[sample])[l]])]

Replaced(s, x) == [s EXCEPT ![Len(s)] = x]

(* Mutant: the line for which there is no room is not written. *)
Put_Drops ==
    /\ sample <= Len(samples)
    /\ line > 0
    /\ line <= Len(samples[sample])
    /\ bytesBuffers' =
          IF Fits(samples[sample][line])
          THEN Replaced(bytesBuffers, Appended(Current, line))
          ELSE Append(bytesBuffers, Empty)
    /\ line' = line + 1
    /\ UNCHANGED <<udp, samples, sample, ignoredSamples>>

Put ==
    /\ sample <= Len(samples)
    /\ line > 0
    /\ line <= Len(samples[sample])
    /\ bytesBuffers' =
          IF Fits(samples[sample][line])
          THEN Replaced(bytesBuffers, Appended(Current, line))
          ELSE Append(bytesBuffers, Appended(Empty, line))
    /\ line' = line + 1
    /\ UNCHANGED <<udp, samples, sample, ignoredSamples>>

NextSample ==
    /\ sample <= Len(samples)
    /\ line > 0
    /\ line > Len(samples[sample])
    /\ sample' = sample + 1
    /\ line' = 0
    /\ UNCHANGED <<udp, samples, bytesBuffers, ignoredSamples>>

(* The buffers are handed to Write. *)
Return == sample > Len(samples) /\ UNCHANGED vars

Next == Ignore \/ Translate \/ Put \/ NextSample \/ Return

Spec == Init /\ [][Next]_vars

-----------------------------------------------------------------------------
Lines(b) == bytesBuffers[b].lines

TypeOK ==
    /\ udp \in BOOLEAN /\ samples \in Requests
    /\ sample \in 1..(Len(samples) + 1)
    /\ line \in Nat
    /\ line > 0 => sample <= Len(samples) /\ line <= Len(samples[sample]) + 1
    /\ Len(bytesBuffers) > 0
    /\ \A b \in DOMAIN bytesBuffers : bytesBuffers[b].size \in Nat
    /\ ignoredSamples \in 0..(sample - 1)

(* A datagram is no longer than udpMaxBytes, unless it is a single line     *)
(* that is longer by itself; and over a stream all goes into one buffer.    *)
DatagramsFit ==
    /\ udp => \A b \in DOMAIN bytesBuffers :
                bytesBuffers[b].size <= UdpMaxBytes \/ Len(Lines(b)) = 1
    /\ ~udp => Len(bytesBuffers) = 1

(* A datagram is closed only when the next line has no room in it.          *)
ClosedWhenFull ==
    \A b \in 2..Len(bytesBuffers) :
        /\ Lines(b) # <<>>
        /\ bytesBuffers[b - 1].size
              + samples[Lines(b)[1].sample][Lines(b)[1].line] > UdpMaxBytes

Precedes(x, y) == x.sample < y.sample \/ (x.sample = y.sample /\ x.line < y.line)

(* The bytes of the last line of a sample are its own. *)
LastLineHolds(x) ==
    x.line = Len(samples[x.sample]) => \A place \in DOMAIN x.bytes : x.bytes[place] = x.line

(* Every line of the samples that were translated is in one place of one    *)
(* buffer, in the order of the samples and of their paths, and the last one  *)
(* of a sample, so the one of a sample with one path, holds its own bytes    *)
(* (prepareWrite, ToDatapoints).                                            *)
EveryLineOnce ==
    /\ \A s \in 1..(sample - 1) : samples[s] # Failed =>
          \A l \in DOMAIN samples[s] : \E b \in DOMAIN bytesBuffers :
              \E k \in DOMAIN Lines(b) : Lines(b)[k].sample = s /\ Lines(b)[k].line = l
    /\ \A b1, b2 \in DOMAIN bytesBuffers :
          \A k1 \in DOMAIN Lines(b1), k2 \in DOMAIN Lines(b2) :
              b1 < b2 \/ (b1 = b2 /\ k1 < k2) => Precedes(Lines(b1)[k1], Lines(b2)[k2])
    /\ \A b \in DOMAIN bytesBuffers :
          \A k \in DOMAIN Lines(b) : LastLineHolds(Lines(b)[k])

=============================================================================
