---------------------------- MODULE GhcnhCommands ----------------------------
(***************************************************************************)
(* One run of jobs/ingest_noaa_ghcnh.py or jobs/validate_noaa_ghcnh.py:    *)
(* download_chunk fetches the annual files of the window one after the     *)
(* other, each within its own limits, from an upstream that can answer     *)
(* anything; the files are parsed as they arrive; a batch is stored in one    *)
(* transaction; report files are replaced.  Time passes, in ticks, only    *)
(* while the program waits for the network or sleeps.                      *)
(***************************************************************************)
EXTENDS GhcnhSource

CONSTANTS
  Requests,     \* the windows that can be asked for
  Tasks,        \* the arguments of the commands that can be run
  Upstream,     \* Upstream[y]: the contents the file of year y can have
  Timeout, Budget, Attempts, MaxBytes,  \* DownloadLimits; a row is a byte
  MaxRetryAfter,  \* the longest wait that _retry_delay accepts
  RetryHeaders,   \* Retry-After: delays, and Absent or Invalid
  Absent, Invalid,
  NoPin           \* a year without --expected-sha256

ASSUME LimitsAssumption ==
  /\ {Timeout, Budget, Attempts, MaxBytes, MaxRetryAfter} \subseteq Nat \ {0}
  /\ RetryHeaders \subseteq Nat \cup {Absent, Invalid}
  /\ Requests \subseteq {r \in [start : Nat, end : Nat] : r.start < r.end}

(* Whatever year of a window is asked for, what is sent is a sequence of rows. *)
ASSUME UpstreamAssumption ==
  \A r \in Requests : \A y \in (r.start \div Year)..((r.end - 1) \div Year) :
    \A rows \in Upstream[y] : rows \in Seq(SourceRows)

VARIABLES
  task,     \* the arguments: command, source, pins, the report files wanted
  phase,    \* what the program is about to do
  attempt,  \* of download_chunk
  elapsed,  \* ticks since the download of this year began
  waited,   \* ticks since the pending network operation began
  patience, \* the timeout given to the operations of this attempt
  stream,   \* what the server has left to send of this response
  body,     \* what was received of it
  header,   \* Retry-After of the last response
  chunks,   \* the files acquired, [year, rows, served]
  gathered, \* the batch of the chunks parsed so far
  served,   \* the contents the server set out to send
  stored,   \* the batch committed to the database, <<>> when none is
  report,   \* the status that stdout tells
  files,    \* files[f]: "old" | "new", under its name; temp[f] beside it
  temp,
  exit      \* exit status, 9 when the process was killed, -1 before

download == <<attempt, elapsed, waited, patience, stream, body, header, served>>
filing == <<files, temp, exit>>
outputs == <<stored, report, filing>>
parsed == <<chunks, gathered>>
commandVars == <<request, task, phase, download, parsed, outputs>>

ReportFiles == {"json", "markdown"}

FirstYear == Start \div Year
Missing == Years \ {chunks[n].year : n \in DOMAIN chunks}
NextYear == FirstYear + Len(chunks)

(* The arguments; the import has one report file, the pin is for the first year. *)
ASSUME TaskAssumption ==
  Tasks \subseteq
    {t \in [command : {"preview", "import", "validate"}, source : {"http", "fixture"},
            pin : {NoPin} \cup UNION Range(Upstream), reports : SUBSET ReportFiles] :
       t.command # "validate" => "markdown" \notin t.reports}

CommandInit ==
  /\ request \in Requests
  /\ task \in Tasks
  /\ phase = "next"
  /\ attempt = 1 /\ elapsed = 0 /\ waited = 0 /\ patience = 0
  /\ stream = <<>> /\ body = <<>> /\ header = Absent /\ served = <<>>
  /\ chunks = <<>> /\ gathered = EmptyBatch
  /\ stored = <<>> /\ report = "none" /\ exit = -1
  /\ files = [f \in ReportFiles |-> "old"] /\ temp = [f \in ReportFiles |-> "none"]

Goto(label) == phase' = label

-----------------------------------------------------------------------------
(* iter_chunks and download_chunk *)

(* Any error of acquisition or parsing ends it: nothing is stored. *)
Abort ==
  /\ report' = "failed"
  /\ Goto("tell")

BeginYear ==
  /\ phase = "next"
  /\ Missing # {}
  /\ task.source = "http"
  /\ attempt' = 1 /\ elapsed' = 0
  /\ Goto("attempt")
  /\ UNCHANGED <<request, task, waited, patience, stream, body, header, served, parsed,
                 outputs>>

(* load_fixture: a recorded file stands for exactly one year. *)
LoadFixture ==
  /\ phase = "next"
  /\ Missing # {}
  /\ task.source = "fixture"
  /\ \/ Abort /\ UNCHANGED <<body, served>>
     \/ /\ Cardinality(Years) = 1
        /\ \E rows \in Upstream[NextYear] : body' = rows /\ served' = rows /\ Len(rows) <= MaxBytes
        /\ Goto("chunk")
        /\ UNCHANGED report
  /\ UNCHANGED <<request, task, attempt, elapsed, waited, patience, stream, header, parsed,
                 stored, filing>>

StartAttempt ==
  /\ phase = "attempt"
  /\ IF elapsed >= Budget THEN Abort /\ UNCHANGED patience
     ELSE /\ patience' = Smaller(Timeout, Budget - elapsed)
          /\ Goto("connecting")
          /\ UNCHANGED report
  /\ waited' = 0 /\ header' = Absent
  /\ UNCHANGED <<request, task, attempt, elapsed, stream, body, served, parsed, stored,
                 filing>>

(* The timeout is for each operation: connecting, the headers, every part. *)
Tick ==
  /\ phase \in {"connecting", "waiting", "reading"}
  /\ waited < patience
  /\ waited' = waited + 1
  /\ elapsed' = elapsed + 1
  /\ UNCHANGED <<request, task, phase, attempt, patience, stream, body, header, served,
                 parsed, outputs>>

Connected ==
  /\ phase = "connecting"
  /\ waited' = 0
  /\ Goto("waiting")
  /\ UNCHANGED <<request, task, attempt, elapsed, patience, stream, body, header, served,
                 parsed, outputs>>

(* 408, 429 and 5xx are retried, any other status but 200 is not. *)
Refused ==
  /\ phase = "waiting"
  /\ \/ \E h \in RetryHeaders : header' = h /\ Goto("retry") /\ UNCHANGED report
     \/ Abort /\ UNCHANGED header
  /\ UNCHANGED <<request, task, attempt, elapsed, waited, patience, stream, body, served,
                 parsed, stored, filing>>

(* Mutant of Answered: the part received by the attempt before is kept. *)
AnsweredKeepingBody ==
  /\ phase = "waiting"
  /\ \E rows \in Upstream[NextYear] : stream' = rows /\ served' = rows
  /\ waited' = 0
  /\ Goto("reading")
  /\ UNCHANGED <<request, task, attempt, elapsed, patience, body, header, parsed, outputs>>

Answered ==
  /\ phase = "waiting"
  /\ \E rows \in Upstream[NextYear] : stream' = rows /\ served' = rows
  /\ body' = <<>>
  /\ waited' = 0
  /\ Goto("reading")
  /\ UNCHANGED <<request, task, attempt, elapsed, patience, header, parsed, outputs>>

(* Mutant of ReceivePart: the deadline is left to the end of the body. *)
ReceivePartUntimed ==
  /\ phase = "reading"
  /\ stream # <<>>
  /\ IF Len(body) >= MaxBytes THEN Abort /\ UNCHANGED <<stream, body>>
     ELSE /\ body' = Append(body, Head(stream))
          /\ stream' = Tail(stream)
          /\ UNCHANGED <<phase, report>>
  /\ waited' = 0
  /\ UNCHANGED <<request, task, attempt, elapsed, patience, header, served, parsed, stored,
                 filing>>

ReceivePart ==
  /\ phase = "reading"
  /\ stream # <<>>
  /\ IF Len(body) >= MaxBytes \/ elapsed >= Budget THEN Abort /\ UNCHANGED <<stream, body>>
     ELSE /\ body' = Append(body, Head(stream))
          /\ stream' = Tail(stream)
          /\ UNCHANGED <<phase, report>>
  /\ waited' = 0
  /\ UNCHANGED <<request, task, attempt, elapsed, patience, header, served, parsed, stored,
                 filing>>

EndOfBody ==
  /\ phase = "reading"
  /\ stream = <<>>
  /\ IF elapsed >= Budget THEN Abort ELSE Goto("chunk") /\ UNCHANGED report
  /\ UNCHANGED <<request, task, download, parsed, stored, filing>>

(* A lost or timed out connection is tried again, a bad encoding is not. *)
Interrupted ==
  /\ phase \in {"connecting", "waiting", "reading"}
  /\ \/ Goto("retry") /\ UNCHANGED report
     \/ phase = "reading" /\ Abort
  /\ UNCHANGED <<request, task, download, parsed, stored, filing>>

(* _retry_delay: without a header, half a second (a tick) that doubles with *)
(* every attempt, up to eight seconds.                                      *)
Delay == IF header = Absent THEN <<1, 2, 4, 8, 16>>[Smaller(attempt, 5)] ELSE header

Affordable ==
  /\ header # Invalid
  /\ header # Absent => header <= MaxRetryAfter
  /\ Delay < Budget - elapsed

(* Mutant of Retry: the attempts are not counted. *)
RetryUncounted ==
  /\ phase = "retry"
  /\ IF ~Affordable THEN Abort /\ UNCHANGED elapsed
     ELSE /\ elapsed' = elapsed + Delay
          /\ Goto("attempt")
          /\ UNCHANGED report
  /\ UNCHANGED <<request, task, attempt, waited, patience, stream, body, header, served, parsed,
                 stored, filing>>

Retry ==
  /\ phase = "retry"
  /\ IF attempt = Attempts \/ ~Affordable THEN Abort /\ UNCHANGED <<attempt, elapsed>>
     ELSE /\ elapsed' = elapsed + Delay
          /\ attempt' = attempt + 1
          /\ Goto("attempt")
          /\ UNCHANGED report
  /\ UNCHANGED <<request, task, waited, patience, stream, body, header, served, parsed,
                 stored, filing>>

(* The rows of files, by the number of the file and of the row in it. *)
AllRows(cs) ==
  [p \in UNION {{c} \X DOMAIN cs[c].rows : c \in DOMAIN cs} |-> cs[p[1]].rows[p[2]]]

(* The checksum is compared; the rows of the file are added to the batch,  *)
(* or to the description of quality, which takes conflicting rows.         *)
Parse ==
  /\ phase = "chunk"
  /\ LET next == ParseChunk(gathered, body, NextYear, Window)
         bad == IF task.command = "validate" THEN
                  (Len(body) > MaxRows \/ \E n \in DOMAIN body : Unreadable(body[n], NextYear))
                ELSE next.failed
     IN  IF (Len(chunks) = 0 /\ task.pin \notin {NoPin, body}) \/ bad
         THEN Abort /\ UNCHANGED <<chunks, gathered>>
         ELSE /\ chunks' = Append(chunks, [year |-> NextYear, rows |-> body, served |-> served])
              /\ gathered' = next
              /\ Goto("next")
              /\ UNCHANGED report
  /\ UNCHANGED <<request, task, download, stored, filing>>

-----------------------------------------------------------------------------
(* The outcome *)

Acquired == phase = "next" /\ Missing = {}

Describe ==
  /\ Acquired
  /\ task.command \in {"preview", "validate"}
  /\ report' = IF task.command = "preview" THEN "validated" ELSE "characterized"
  /\ Goto("tell")
  /\ UNCHANGED <<request, task, download, parsed, stored, filing>>

(* Mutant of Persist: the status is taken for granted. *)
PersistBlindly ==
  /\ Acquired
  /\ task.command = "import"
  /\ stored' \in {<<>>, <<gathered>>}
  /\ report' = "ingested"
  /\ Goto("tell")
  /\ UNCHANGED <<request, task, download, parsed, filing>>

(* One transaction: committed, rolled back, or committed and the answer of *)
(* the database lost, which is told as rolled back.                        *)
Persist ==
  /\ Acquired
  /\ task.command = "import"
  /\ \/ stored' = <<gathered>> /\ report' \in {"ingested", "failed"}
     \/ stored' = <<>> /\ report' = "failed"
  /\ Goto("tell")
  /\ UNCHANGED <<request, task, download, parsed, filing>>

Waiting(f) == f \in task.reports /\ files[f] = "old"

(* The Markdown report is written after the JSON report. *)
Turn(f) ==
  /\ phase = "tell"
  /\ Waiting(f)
  /\ f = "markdown" => ~Waiting("json")

(* _write_report, _write_text: a temporary file first. *)
SaveReport(f) ==
  /\ Turn(f)
  /\ temp[f] = "none"
  /\ temp' = [temp EXCEPT ![f] = "whole"]
  /\ UNCHANGED <<request, task, phase, download, parsed, stored, report, files, exit>>

ReplaceReport(f) ==
  /\ phase = "tell"
  /\ temp[f] = "whole"
  /\ files' = [files EXCEPT ![f] = "new"]
  /\ temp' = [temp EXCEPT ![f] = "none"]
  /\ UNCHANGED <<request, task, phase, download, parsed, stored, report, exit>>

(* An OSError before the file is replaced: the temporary file is removed,  *)
(* no further report is written, and the command fails whatever it stored. *)
CannotSave(f) ==
  /\ Turn(f)
  /\ temp' = [temp EXCEPT ![f] = "none"]
  /\ exit' = 2
  /\ Goto("ended")
  /\ UNCHANGED <<request, task, download, parsed, stored, report, files>>

Finish ==
  /\ phase = "tell"
  /\ \A f \in task.reports : files[f] = "new"
  /\ exit' = IF report = "failed" THEN 2 ELSE 0
  /\ Goto("ended")
  /\ UNCHANGED <<request, task, download, parsed, stored, report, files, temp>>

(* SIGKILL; a transaction that is not committed is rolled back. *)
Kill ==
  /\ phase # "ended"
  /\ exit' = 9
  /\ Goto("ended")
  /\ UNCHANGED <<request, task, download, parsed, stored, report, files, temp>>

CommandStep ==
  \/ BeginYear \/ LoadFixture \/ StartAttempt \/ Connected
  \/ Refused \/ Answered \/ ReceivePart \/ EndOfBody \/ Interrupted \/ Retry \/ Parse
  \/ Describe \/ Persist \/ Finish
  \/ \E f \in ReportFiles : SaveReport(f) \/ ReplaceReport(f) \/ CannotSave(f)

CommandNext == CommandStep \/ Tick \/ Kill

(* Every network operation ends, with an answer or with its timeout. *)
CommandSpec == CommandInit /\ [][CommandNext]_commandVars /\ WF_commandVars(CommandStep)

-----------------------------------------------------------------------------
(* Properties *)

(* The batch of a sequence of files, parsed one after the other. *)
ParseChunks(cs) ==
  LET after[n \in 0..Len(cs)] ==
        IF n = 0 THEN EmptyBatch
        ELSE ParseChunk(after[n - 1], cs[n].rows, cs[n].year, Window)
  IN  after[Len(cs)]

(* docs/runbooks/noaa_ghcnh.md: interrupted bodies are discarded before a  *)
(* retry.  Every file that is parsed came whole from one response, within  *)
(* the byte limit, is the pinned one if one is pinned, and no year is read *)
(* twice or left out of what is stored.                                    *)
ChunksAreWhole ==
  /\ \A n \in DOMAIN chunks :
       /\ chunks[n].year = FirstYear + n - 1
       /\ chunks[n].rows = chunks[n].served
       /\ Len(chunks[n].rows) <= MaxBytes
  /\ chunks # <<>> => task.pin \in {NoPin, chunks[1].rows}

(* docs/runbooks/noaa_ghcnh.md: 90 seconds for each file, checked between  *)
(* reads and attempts.  Operations in progress can each add their timeout: *)
(* the headers and the first part after a connection.  A server that sends *)
(* a file in small parts cannot stretch it further.                        *)
BudgetHolds ==
  /\ elapsed <= Budget + 2 * Timeout
  /\ phase = "chunk" => elapsed < Budget

(* The times for which a batch has a record. *)
Imported(batch) == {batch.records[n].ts : n \in DOMAIN batch.records}

(* docs/runbooks/noaa_ghcnh.md: the counts add up, every time of the window*)
(* is accepted or rejected once however often it is repeated, and accepted *)
(* times are distinct, as persist_batch relies on.                         *)
CountsReconcile ==
  (~gathered.failed /\ chunks # <<>>) =>
    LET rows == AllRows(chunks)
        accepted == Imported(gathered)
    IN  /\ gathered.source_rows = gathered.received + gathered.outside_window
        /\ gathered.received = Len(gathered.records) + gathered.rejected + gathered.duplicates
        /\ Cardinality(accepted) = Len(gathered.records)
        /\ Len(gathered.records) + gathered.rejected = Cardinality(Reports(rows))
        /\ accepted = {rows[n].ts : n \in {k \in Selected(rows) : rows[k].flaws = {}}}

(* The two readers of the same rows agree: what is described as            *)
(* quantitative is what is imported, a state of a time is the reason it is *)
(* rejected for, repeats are counted alike, and the import refuses a       *)
(* window exactly when its description has conflicting times.              *)
QualityAgrees ==
  chunks # <<>> =>
    LET rows == AllRows(chunks) IN
      /\ gathered.failed <=> Conflicting(rows) # {}
      /\ ~gathered.failed =>
           /\ Quantitative(rows) = Imported(gathered)
           /\ \A r \in Reasons :
                gathered.reasons[r] = Cardinality({t \in Reports(rows) : StateAt(rows, t) = r})
           /\ gathered.duplicates = ExactDuplicates(rows)
      /\ \A n \in Selected(rows) :
           Issues(rows[n]) # {} => rows[n].ts \notin Quantitative(rows)

(* Supported time is the union of the intervals of the accepted reports,   *)
(* gaps are the rest of the window, every time of the window is in exactly *)
(* one of its days, whose supported time is what they have of the window's,*)
(* and only a series with a recent report is within the threshold.         *)
SupportIsUnion ==
  chunks # <<>> =>
    LET times == Quantitative(AllRows(chunks))
        covered == {t \in Window : \E r \in times : r - Interval <= t /\ t < r}
        support == Support(times, Start, End)
        Span(d) == d[1]..(d[2] - 1)
    IN  /\ Minutes(support) = Cardinality(covered)
        /\ UNION {Span(g) : g \in Gaps(support, Start, End)} = Window \ covered
        /\ \A d \in Days : Minutes(Support(times, d[1], d[2])) = Cardinality(covered \cap Span(d))
        /\ \A t \in Window : \E d \in Days : \A e \in Days : t \in Span(e) <=> e = d
        /\ Freshness(times) = "within_threshold_at_window_end" <=>
             \E t \in times : t >= End - Stale

(* The two readers and the lengths that are reported of their rows agree. *)
ReadersAgree == CountsReconcile /\ QualityAgrees /\ SupportIsUnion

(* docs/runbooks/noaa_ghcnh_quality.md: each file is replaced atomically,  *)
(* but the pair is not a transaction.  A report is never partly written,   *)
(* only an interrupted or killed command leaves the pair mixed, and only a *)
(* killed one a temporary file.                                            *)
ReportsAreWhole ==
  /\ \A f \in ReportFiles : files[f] \in {"old", "new"}
  /\ files["markdown"] = "new" /\ "json" \in task.reports => files["json"] = "new"
  /\ phase = "ended" /\ exit # 9 => \A f \in ReportFiles : temp[f] = "none"

(* docs/runbooks/noaa_ghcnh.md: a later network or parsing failure cannot  *)
(* write an earlier successful chunk, a preview writes nothing, success    *)
(* returns 0.  What is stored is the whole batch of every year; exit 0 of  *)
(* an import tells that it is; no report file is torn.                     *)
OutcomeIsTold ==
  /\ stored # <<>> =>
       /\ task.command = "import"
       /\ Missing = {} /\ Cardinality(Years) = Len(chunks)
       /\ stored = <<ParseChunks(chunks)>>
       /\ ~stored[1].failed
  /\ report = "ingested" => stored # <<>>
  /\ exit = 0 => /\ task.command = "import" => stored # <<>>
                 /\ report # "failed"
                 /\ \A f \in task.reports : files[f] = "new"
  /\ ReportsAreWhole

(* A command that is not stopped ends, whatever the server sends. *)
CommandEnds == <>(phase = "ended")
=============================================================================
