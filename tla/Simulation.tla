----------------------------- MODULE Simulation -----------------------------
(***************************************************************************)
(* The simulation page: the lines that the user typed are read with        *)
(* regular expressions, sent as JSON to /write, which answers with the     *)
(* lines that it would send to carbon, and the answer is put on the page.  *)
(*                                                                         *)
(* A line is known by what the regular expressions tell apart in it: the    *)
(* metric and the value of the sample that it is meant for, and a word      *)
(* followed by a number anywhere else in it.  The adapter is that of        *)
(* Archive; a panic of it takes the requests of the page with it.          *)
(***************************************************************************)
EXTENDS Archive

CONSTANTS
    Texts,      \* what may stand in #input: sequences of lines
    Now,        \* the time of a sample that has none
    Milli,      \* milliseconds in a second
    Horizon,    \* seconds that int64 nanoseconds can count
    References, \* what a browser takes for a character after an ampersand
    Garbled,    \* a text that is not the lines it was made of
    MaxClicks

Ampersand == 38
Less      == 60

(* A line is [metric, value, mantissa, numeric, time, word].  metric is Null *)
(* for a comment; numeric tells whether an unsigned number stands where the  *)
(* value is, mantissa what is left of it when a signed exponent is cut off;  *)
(* time is in seconds (and milliseconds in the text) or Now; word is the     *)
(* first sample that the words of the line can be taken for, or Null.        *)
ASSUME TextsAssumption ==
    \A text \in Texts :
        /\ text \in Seq({text[i] : i \in DOMAIN text})
        /\ \A i \in DOMAIN text : text[i].metric # Null => IsMetric(text[i].metric)

(* A character reference begins with an ampersand. *)
ASSUME ReferencesAssumption == References \subseteq Seq(Bytes)

VARIABLES
    clicks,     \* the number of clicks on "Simulate write"
    pending,    \* the requests without an answer on the page
    outputs,    \* #outputs: the click and the lines, click 0 at first
    typed,      \* the text of each click
    failed,     \* the clicks whose request failed
    overlapped  \* the clicks whose request was not alone

page     == <<clicks, pending, outputs, typed, failed, overlapped>>
simulationVars == <<archive, page>>

SimulationInit ==
    /\ ArchiveInit
    /\ clicks = 0
    /\ pending = {}
    /\ outputs = [click |-> 0, lines |-> <<>>]
    /\ typed = <<>>
    /\ failed = {} /\ overlapped = {}

-----------------------------------------------------------------------------
(* A value as the export format quotes it: \\, \" and \n. *)
Quoted(v) ==
    FlattenSeq([i \in DOMAIN v |->
        CASE v[i] \in {Backslash, Quote} -> <<Backslash, v[i]>>
          [] v[i] = 10 -> <<Backslash, 110>>
          [] OTHER -> <<v[i]>>])

(* parseLabels takes the text between the quotes as it stands. *)
ParseLabels(m) == [m EXCEPT !.labels = [k \in DOMAIN @ |-> Quoted(@[k])]]

(* The time, which the export format has in milliseconds, is sent as seconds, *)
(* and a time of zero as the present.                                       *)
SentTime(line) == IF line.time \in {Now, 0} THEN Now ELSE line.time * Milli

(* Mutant: a line that cannot be read gives a sample of zero. *)
ParseSample_Zero(line) ==
    IF line.metric # Null
    THEN <<[metric |-> ParseLabels(line.metric),
            value  |-> IF line.numeric THEN line.mantissa ELSE 0,
            time   |-> SentTime(line)]>>
    ELSE IF line.word # Null THEN <<line.word>> ELSE <<>>

(* regexpMetric matches at the sample if its value is a number without a     *)
(* sign, and otherwise at the first word that a number follows.              *)
ParseSample(line) ==
    IF line.metric # Null /\ line.numeric
    THEN <<[metric |-> ParseLabels(line.metric),
            value  |-> line.mantissa,
            time   |-> SentTime(line)]>>
    ELSE IF line.word # Null THEN <<line.word>> ELSE <<>>

(* Timestamp.UnixNano() and back to seconds. *)
UnixSeconds(t) == IF t = Now THEN Now ELSE ((t + Horizon) % (2 * Horizon)) - Horizon

(* ToDatapoints; a value of Null is one that is not finite. *)
ToDatapoints(s) ==
    IF s.value = Null THEN <<>>
    ELSE <<[path |-> DefaultPath(s.metric, cfg.format), value |-> s.value,
            time |-> UnixSeconds(s.time)]>>

Skipped == <<"Skipped: Not set carbon address.">>

(* Client.Write of a dry run. *)
DryRun(samples) ==
    IF ~cfg.carbon THEN Skipped
    ELSE FlattenSeq([i \in DOMAIN samples |-> ToDatapoints(samples[i])])

-----------------------------------------------------------------------------
(* simulWrite() *)
SimulWrite(text) ==
    /\ clicks < MaxClicks
    /\ Request
    /\ clicks' = clicks + 1
    /\ pending' = pending \cup
          {[click   |-> clicks + 1,
            samples |-> FlattenSeq([i \in DOMAIN text |-> ParseSample(text[i])]),
            body    |-> Null]}
    /\ typed' = Append(typed, text)
    /\ overlapped' =
          IF pending = {} THEN overlapped
          ELSE overlapped \cup {clicks + 1} \cup {r.click : r \in pending}
    /\ UNCHANGED <<cfg, graphite, written, answer, running, outputs, failed>>

(* Handler.write with Content-Type application/json. *)
ServeDryRun(r) ==
    /\ running
    /\ r.body = Null
    /\ pending' = (pending \ {r}) \cup {[r EXCEPT !.body = DryRun(r.samples)]}
    /\ UNCHANGED <<archive, clicks, outputs, typed, failed, overlapped>>

(* The request or its answer is lost, or the process is down: $.ajax has no  *)
(* handler for errors, and nobody writes #error-msg.                        *)
FailDryRun(r) ==
    /\ pending' = pending \ {r}
    /\ failed' = failed \cup {r.click}
    /\ UNCHANGED <<archive, clicks, outputs, typed, overlapped>>

(* What HTML does not take for text: a tag or a comment, which begins with  *)
(* one of !, / and ? or a letter after <, and a character reference.        *)
IsMarkup(text) ==
    \E i \in DOMAIN text :
        \/ /\ text[i] = Less /\ i < Len(text)
           /\ text[i + 1] \in {33, 47, 63} \cup 65..90 \cup 97..122
        \/ /\ text[i] = Ampersand
           /\ \E name \in References : IsPrefix(name, SubSeq(text, i + 1, Len(text)))

(* What the browser makes of lines that are set as they stand in a pre       *)
(* element: Escape and EscapeTagged leave < and & alone, and nobody else     *)
(* escapes them.                                                            *)
Displayed(body) ==
    IF cfg.carbon /\ \E i \in DOMAIN body : IsMarkup(body[i].path) THEN Garbled ELSE body

(* Mutant: an answer without lines is not shown. *)
HandleSimulationResult_Lines(r) ==
    /\ r.body # Null
    /\ outputs' = IF r.body = <<>> THEN outputs
                  ELSE [click |-> r.click, lines |-> Displayed(r.body)]
    /\ pending' = pending \ {r}
    /\ UNCHANGED <<archive, clicks, typed, failed, overlapped>>

HandleSimulationResult(r) ==
    /\ r.body # Null
    /\ outputs' = [click |-> r.click, lines |-> Displayed(r.body)]
    /\ pending' = pending \ {r}
    /\ UNCHANGED <<archive, clicks, typed, failed, overlapped>>

SimulationNext ==
    \/ ArchiveNext /\ UNCHANGED page
    \/ \E text \in Texts : SimulWrite(text)
    \/ \E r \in pending : ServeDryRun(r) \/ FailDryRun(r) \/ HandleSimulationResult(r)

SimulationSpec == SimulationInit /\ [][SimulationNext]_simulationVars

-----------------------------------------------------------------------------
(* What Prometheus would write for a line: its sample, with its own labels   *)
(* and its own time, as /write turns it into lines for carbon.              *)
Intended(line) ==
    IF line.metric = Null THEN <<>>
    ELSE ToDatapoints([metric |-> line.metric, value |-> line.value, time |-> line.time])

(* The page reads a line as it is meant if it has a finite, unsigned value   *)
(* without a signed exponent, labels without quoting, and no time or one     *)
(* that comes to the same second in seconds and in milliseconds; a line that *)
(* has no such sample must not have a word with a number either.  It shows   *)
(* the line if its path has no markup.                                      *)
ReadAsMeant(line) ==
    IF line.metric # Null /\ line.numeric
    THEN /\ line.value = line.mantissa
         /\ UnixSeconds(SentTime(line)) = UnixSeconds(line.time)
         /\ \A k \in DOMAIN line.metric.labels : Quoted(line.metric.labels[k]) = line.metric.labels[k]
         /\ ~IsMarkup(DefaultPath(line.metric, cfg.format))
    ELSE (line.metric = Null \/ line.value = Null) /\ line.word = Null

(* What carbon would get for the text of the outputs' click. *)
IntendedLines(text) == FlattenSeq([i \in DOMAIN text |-> Intended(text[i])])

(* The outputs are what carbon would get for the text of their own click,    *)
(* whichever answers are late or lost, if every line of that text is read    *)
(* as it is meant (simulWrite, parseSample, the dry run of Client.Write,     *)
(* handleSimulationResult).                                                 *)
MeantIsPredicted ==
    outputs.click > 0 /\ cfg.carbon =>
        LET text == typed[outputs.click]
        IN  (\A i \in DOMAIN text : ReadAsMeant(text[i])) => outputs.lines = IntendedLines(text)

(* When no request is on its way the outputs answer the last click, unless   *)
(* its request failed, or was sent while another one was on its way: the     *)
(* page shows the answer that came last and not the one to the last click.   *)
OutputsAnswerLastClick ==
    pending = {} /\ clicks > 0 /\ clicks \notin failed \cup overlapped =>
        outputs.click = clicks

=============================================================================
