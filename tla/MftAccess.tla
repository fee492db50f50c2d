----------------------------- MODULE MftAccess -----------------------------
(***************************************************************************)
(* How the index thread gets the records of whole volumes (FileSearch.cpp, *)
(* BuildIndex): it reads them itself if the dock is elevated, else from an *)
(* elevated helper a scheduled task starts, which streams them through a   *)
(* pipe, else it crawls the user's folders.  An attempt that fails is      *)
(* followed by the next one; helpers outlive attempts and docks, and the   *)
(* task starts no second one beside them.  The user may register the task  *)
(* while all this goes on.                                                 *)
(*                                                                         *)
(* The records of a volume are Batches batches.  What a volume's records   *)
(* are, who may open the pipe and how the task is described are left out.  *)
(***************************************************************************)
EXTENDS Integers, Sequences

CONSTANTS
    Letters,      \* FixedNtfsVolumes, in order
    Batches,
    Tokens,       \* who may read which volumes
    PipeRoom,     \* chunks the pipe holds
    MaxFailures,  \* bound: reads, starts and waits that fail
    MaxDocks      \* bound: docks started

Volumes == {Letters[i] : i \in DOMAIN Letters}
\* elevated: the dock's token; dock, helper: what each can open.
Token == [elevated : BOOLEAN, dock : SUBSET Volumes, helper : SUBSET Volumes]

ASSUME AccessAssumption ==
    /\ Letters \in Seq(Volumes) /\ Len(Letters) > 0
    /\ \A i, j \in DOMAIN Letters : Letters[i] = Letters[j] => i = j
    /\ Batches \in Nat \ {0} /\ PipeRoom \in Nat \ {0}
    /\ Tokens \subseteq Token
    /\ MaxFailures \in Nat /\ MaxDocks \in Nat

VARIABLES
    token,
    task,        \* the scheduled task is registered
    registrar,   \* the process --register-mft-task: "none", "awaited" or "given up"
    prompting,   \* m_searchMftPrompting
    answer,      \* kSearchMftAccessMessage in the dock's queue
    helper,      \* the process --mft-dump
    pipe,
    build,       \* BuildIndex
    published,   \* the index in use, with its journals
    offer,       \* m_status.canEnableMft
    rebuild,     \* m_rebuild, or a build is due for another reason
    failures, docks

accessVars == <<token, task, registrar, prompting, answer, helper, pipe, build, published,
                offer, rebuild, failures, docks>>

NoHelper == [at |-> "none", todo |-> <<>>, sent |-> 0, joined |-> FALSE]
NoPipe == [made |-> FALSE, client |-> FALSE, chunks |-> <<>>]
Nothing == [mode |-> "starting", index |-> <<>>, journals |-> <<>>]
NoBuild == [at |-> "idle", todo |-> <<>>, any |-> FALSE, index |-> <<>>, starts |-> <<>>,
         open |-> FALSE, delivered |-> 0, failed |-> 0, denied |-> FALSE]

\* A dock that starts; a build is due or not.
AccessStart(due) ==
    /\ token \in Tokens /\ task \in BOOLEAN
    /\ registrar = "none" /\ prompting = FALSE /\ answer = "none"
    /\ helper = NoHelper /\ pipe = NoPipe
    /\ build = NoBuild /\ published = Nothing /\ offer = FALSE /\ rebuild = due
    /\ failures = 0 /\ docks = 1

AccessInit == AccessStart(TRUE)

\* One of the bounded failures happens.
Fails == failures < MaxFailures /\ failures' = failures + 1
FailsIf(b) == IF b THEN Fails ELSE UNCHANGED failures

-----------------------------------------------------------------------------
(* The index under construction.                                           *)

AddVolume(b, letter) ==
    [b EXCEPT !.index = Append(@, [letter |-> letter, got |-> 0, finished |-> 0]),
              !.starts = Append(@, [letter |-> letter, volume |-> Len(b.index) + 1])]
AddRecords(b, n) == [b EXCEPT !.index[Len(b.index)].got = @ + n]
FinishVolume(b) == [b EXCEPT !.index[Len(b.index)].finished = @ + 1]

\* Mutant: the journals of the attempt before are kept.
MutAttempt(b, where) == [b EXCEPT !.at = where, !.index = <<>>, !.todo = Letters]

\* The lambda `attempt` of BuildIndex.
Attempt(b, where) == [b EXCEPT !.at = where, !.index = <<>>, !.starts = <<>>, !.todo = Letters]

\* What follows an attempt that did not build.
AfterElevated(b) == IF task THEN Attempt(b, "pipe") ELSE Attempt(b, "crawl")
AfterHelper(b) == Attempt(b, "crawl")

\* IndexThread starts over: a restart is consumed and the journals are closed.
BeginBuild ==
    /\ build.at = "idle" /\ rebuild
    /\ rebuild' = FALSE
    /\ published' = [published EXCEPT !.journals = <<>>]
    /\ build' = IF token.elevated THEN Attempt(NoBuild, "elevated") ELSE AfterElevated(NoBuild)
    /\ UNCHANGED <<token, task, registrar, prompting, answer, helper, pipe, offer, failures, docks>>

\* The end of BuildIndex and what IndexThread does with it.  A build that
\* failed is tried again after five minutes.
Accept(b, mode) ==
    /\ build' = NoBuild
    /\ published' = [mode |-> mode, index |-> b.index, journals |-> b.starts]
    /\ offer' = (mode = "folders" /\ ~token.elevated /\ ~b.denied)
    /\ UNCHANGED rebuild
Refuse ==
    /\ build' = NoBuild /\ published' = Nothing /\ rebuild' = TRUE
    /\ UNCHANGED offer

Goes(b) == build' = b /\ UNCHANGED <<published, offer, rebuild>>

-----------------------------------------------------------------------------
(* The elevated dock and the crawl.                                        *)

\* How EnumerateMft may end: it announces the volume, delivers batches, and
\* is told that access is denied or that something else failed.
Enumerations(letter, sees) ==
    IF letter \in sees
    THEN {[announced |-> TRUE, got |-> Batches, ok |-> TRUE],
          [announced |-> FALSE, got |-> 0, ok |-> FALSE]}
         \cup {[announced |-> TRUE, got |-> n, ok |-> FALSE] : n \in 0 .. Batches - 1}
    ELSE {[announced |-> FALSE, got |-> 0, ok |-> FALSE]}

\* One volume of BuildFromMftInProcess.
ReadVolume ==
    /\ build.at = "elevated" /\ build.todo # <<>>
    /\ LET letter == Head(build.todo) IN
       \E e \in Enumerations(letter, token.dock) :
          LET read == IF e.announced
                      THEN FinishVolume(AddRecords(AddVolume(build, letter), e.got))
                      ELSE build
              rest == [read EXCEPT !.todo = Tail(@), !.any = @ \/ e.ok]
          IN /\ FailsIf(~e.ok /\ letter \in token.dock)
             /\ Goes(IF letter \in token.dock THEN rest ELSE AfterElevated(build))
    /\ UNCHANGED <<token, task, registrar, prompting, answer, helper, pipe, docks>>

EndElevated ==
    /\ build.at = "elevated" /\ build.todo = <<>>
    /\ IF build.any THEN Accept(build, "mft") ELSE Goes(AfterElevated(build))
    /\ UNCHANGED <<token, task, registrar, prompting, answer, helper, pipe, failures, docks>>

\* BuildFromCrawl of the volume of the user's folders, or of none.
Crawl ==
    /\ build.at = "crawl"
    /\ \E any \in BOOLEAN :
          /\ FailsIf(~any)
          /\ IF any THEN Accept(FinishVolume(AddVolume(build, Head(Letters))), "folders") ELSE Refuse
    /\ UNCHANGED <<token, task, registrar, prompting, answer, helper, pipe, docks>>

-----------------------------------------------------------------------------
(* BuildFromHelper: the reader's end of the pipe.                          *)

ClosePipe == pipe' = NoPipe /\ helper' = [helper EXCEPT !.joined = FALSE]

\* The pipe is made and the task run.  A helper of an earlier attempt holds its
\* end of the old pipe or keeps the task from starting another.
OpenPipe ==
    /\ build.at = "pipe"
    /\ \/ /\ pipe' = [NoPipe EXCEPT !.made = TRUE]
          /\ helper' = IF helper.at = "none" THEN [NoHelper EXCEPT !.at = "queued"] ELSE helper
          /\ Goes([build EXCEPT !.at = "connect", !.denied = FALSE])
          /\ UNCHANGED failures
       \/ /\ FailsIf(helper.at = "none")
          /\ Goes(AfterHelper([build EXCEPT !.denied = FALSE]))
          /\ UNCHANGED <<pipe, helper>>
    /\ UNCHANGED <<token, task, registrar, prompting, answer, docks>>

Connected ==
    /\ build.at = "connect" /\ pipe.client
    /\ Goes([build EXCEPT !.at = "read"])
    /\ UNCHANGED <<token, task, registrar, prompting, answer, helper, pipe, failures, docks>>

\* kHelperConnectTimeoutMs: no helper comes, or it comes too late.
ConnectTimesOut ==
    /\ build.at = "connect" /\ ~pipe.client
    /\ FailsIf(helper.at \in {"queued", "begun"})
    /\ ClosePipe
    /\ Goes(AfterHelper(build))
    /\ UNCHANGED <<token, task, registrar, prompting, answer, docks>>

\* A chunk the reader takes from the pipe.
Applied(b, chunk) ==
    CASE chunk.tag = "V" -> IF b.open THEN b ELSE [AddVolume(b, chunk.letter) EXCEPT !.open = TRUE]
      [] chunk.tag = "R" -> IF b.open THEN AddRecords(b, 1) ELSE b
      [] chunk.tag = "E" -> IF b.open
                            THEN [FinishVolume(b) EXCEPT !.open = FALSE, !.delivered = @ + 1]
                            ELSE b
      [] chunk.tag = "X" -> [IF b.open THEN FinishVolume(b) ELSE b
                               EXCEPT !.open = FALSE, !.failed = @ + 1]

ReadChunk ==
    /\ build.at = "read" /\ pipe.chunks # <<>> /\ Head(pipe.chunks).tag # "Z"
    /\ pipe' = [pipe EXCEPT !.chunks = Tail(@)]
    /\ Goes(Applied(build, Head(pipe.chunks)))
    /\ UNCHANGED <<token, task, registrar, prompting, answer, helper, failures, docks>>

\* The last chunk, a pipe that broke, or kPipeReadTimeoutMs without one.
EndRead ==
    /\ build.at = "read"
    /\ \/ pipe.chunks # <<>> /\ Head(pipe.chunks).tag = "Z" /\ UNCHANGED failures
       \/ pipe.chunks = <<>> /\ FailsIf(helper.joined)
    /\ LET b == IF build.open THEN FinishVolume(build) ELSE build
           ended == [b EXCEPT !.open = FALSE, !.denied = b.delivered = 0 /\ b.failed > 0]
       IN IF b.delivered > 0 THEN Accept(ended, "mft") ELSE Goes(AfterHelper(ended))
    /\ ClosePipe
    /\ UNCHANGED <<token, task, registrar, prompting, answer, docks>>

Reader == ReadVolume \/ EndElevated \/ Crawl \/ OpenPipe \/ Connected \/ ConnectTimesOut
          \/ ReadChunk \/ EndRead

-----------------------------------------------------------------------------
(* RunMftDumpHelper.                                                       *)

Helps == UNCHANGED <<token, task, registrar, prompting, answer, build, published, offer,
                     rebuild, docks>>

HelperStarts ==
    /\ helper.at = "queued" /\ helper' = [helper EXCEPT !.at = "begun"]
    /\ UNCHANGED <<pipe, failures>> /\ Helps

\* WaitNamedPipeW and CreateFileW: the pipe of whichever attempt has one.
Connects ==
    /\ helper.at = "begun" /\ pipe.made /\ ~pipe.client
    /\ pipe' = [pipe EXCEPT !.client = TRUE]
    /\ helper' = [helper EXCEPT !.at = "between", !.todo = Letters, !.joined = TRUE]
    /\ UNCHANGED failures /\ Helps

HelperExits(failed) ==
    /\ helper' = NoHelper
    /\ FailsIf(failed)
    /\ UNCHANGED pipe /\ Helps

\* No pipe; a write that fails because the reader has closed it; everything is
\* flushed; or the helper is ended from outside.
NoPipeFound == helper.at = "begun" /\ ~pipe.made /\ HelperExits(FALSE)
WriteFails == helper.at \in {"between", "inside"} /\ ~helper.joined /\ HelperExits(FALSE)
Flushed == helper.at = "flush" /\ (pipe.chunks = <<>> \/ ~helper.joined) /\ HelperExits(FALSE)
HelperDies == helper.at # "none" /\ HelperExits(TRUE)

Writes(tag, letter) ==
    /\ helper.joined /\ Len(pipe.chunks) < PipeRoom
    /\ pipe' = [pipe EXCEPT !.chunks = Append(@, [tag |-> tag, letter |-> letter])]
    /\ Helps
NextVolume == [helper EXCEPT !.at = "between", !.todo = Tail(@), !.sent = 0]

\* A volume is announced, or fails before that.
Announce ==
    /\ helper.at = "between" /\ helper.todo # <<>>
    /\ LET letter == Head(helper.todo) IN
       \/ /\ letter \in token.helper /\ Writes("V", letter)
          /\ helper' = [helper EXCEPT !.at = "inside"] /\ UNCHANGED failures
       \/ /\ FailsIf(letter \in token.helper) /\ Writes("X", letter)
          /\ helper' = NextVolume

SendBatch ==
    /\ helper.at = "inside" /\ helper.sent < Batches
    /\ Writes("R", Head(helper.todo))
    /\ helper' = [helper EXCEPT !.sent = @ + 1] /\ UNCHANGED failures

\* The enumeration ends, or fails in the middle.
EndVolume ==
    /\ helper.at = "inside"
    /\ \/ helper.sent = Batches /\ Writes("E", Head(helper.todo)) /\ UNCHANGED failures
       \/ helper.sent < Batches /\ Writes("X", Head(helper.todo)) /\ Fails
    /\ helper' = NextVolume

SendDone ==
    /\ helper.at = "between" /\ helper.todo = <<>>
    /\ Writes("Z", Head(Letters))
    /\ helper' = [helper EXCEPT !.at = "flush"] /\ UNCHANGED failures

DumpStep == HelperStarts \/ Connects \/ NoPipeFound \/ WriteFails \/ Flushed
          \/ Announce \/ SendBatch \/ EndVolume \/ SendDone

-----------------------------------------------------------------------------
(* The user and the dock's end.                                            *)

Rests == UNCHANGED <<token, helper, pipe, build, published>>

\* The row "Search this entire PC" starts the registration.
AskAccess ==
    /\ offer /\ ~prompting /\ registrar = "none"
    /\ prompting' = TRUE /\ registrar' = "awaited"
    /\ UNCHANGED <<task, answer, offer, rebuild, failures, docks>> /\ Rests

\* RegisterMftTask: the user agrees, or does not, or something fails.
Registers ==
    /\ registrar # "none" /\ registrar' = "none"
    /\ \E agreed \in BOOLEAN :
          /\ task' = (task \/ agreed)
          /\ answer' = IF registrar = "given up" THEN answer ELSE IF agreed THEN "yes" ELSE "no"
    /\ UNCHANGED <<prompting, offer, rebuild, failures, docks>> /\ Rests

\* RequestMftAccess waits two minutes for it and then takes it for refused.
GivesUp ==
    /\ registrar = "awaited" /\ Fails
    /\ registrar' = "given up" /\ answer' = "no"
    /\ UNCHANGED <<task, prompting, offer, rebuild, docks>> /\ Rests

\* kSearchMftAccessMessage.
AccessAnswered ==
    /\ answer # "none" /\ answer' = "none"
    /\ prompting' = FALSE
    /\ rebuild' = (rebuild \/ answer = "yes")
    /\ UNCHANGED <<task, registrar, offer, failures, docks>> /\ Rests

\* The journal of a volume wrapped.
JournalWraps ==
    /\ build.at = "idle" /\ published.mode # "starting" /\ Fails
    /\ rebuild' = TRUE
    /\ UNCHANGED <<task, registrar, prompting, answer, offer, docks>> /\ Rests

\* The dock ends, in the middle of a build or not, and another starts.
NextDock ==
    /\ docks < MaxDocks /\ docks' = docks + 1
    /\ build' = NoBuild /\ published' = Nothing /\ offer' = FALSE /\ rebuild' = TRUE
    /\ prompting' = FALSE /\ answer' = "none"
    /\ registrar' = IF registrar = "none" THEN "none" ELSE "given up"
    /\ ClosePipe
    /\ UNCHANGED <<token, task, failures>>

AccessNext ==
    \/ BeginBuild \/ Reader \/ DumpStep \/ HelperDies
    \/ AskAccess \/ Registers \/ GivesUp \/ AccessAnswered \/ JournalWraps \/ NextDock

\* The threads and processes run on, and every wait has its time limit.
AccessFairness ==
    /\ WF_accessVars(BeginBuild) /\ WF_accessVars(Reader)
    /\ WF_accessVars(DumpStep) /\ WF_accessVars(AccessAnswered)

-----------------------------------------------------------------------------
(* Properties.                                                             *)

\* Type invariant.
Chunk == [tag : {"V", "R", "E", "X", "Z"}, letter : Volumes]
Part == [letter : Volumes, got : 0 .. Batches, finished : 0 .. 1]
JournalStart == [letter : Volumes, volume : 1 .. Len(Letters)]
AccessTypeOK ==
    /\ token \in Tokens
    /\ {task, prompting, offer, rebuild} \subseteq BOOLEAN
    /\ registrar \in {"none", "awaited", "given up"} /\ answer \in {"none", "yes", "no"}
    /\ helper \in [at : {"none", "queued", "begun", "between", "inside", "flush"},
                   todo : Seq(Volumes), sent : 0 .. Batches, joined : BOOLEAN]
    /\ pipe \in [made : BOOLEAN, client : BOOLEAN, chunks : Seq(Chunk)]
    /\ build \in [at : {"idle", "elevated", "pipe", "connect", "read", "crawl"},
                  todo : Seq(Volumes), any : BOOLEAN, index : Seq(Part), starts : Seq(JournalStart),
                  open : BOOLEAN, delivered : Nat, failed : Nat, denied : BOOLEAN]
    /\ published \in [mode : {"starting", "mft", "folders"}, index : Seq(Part), journals : Seq(JournalStart)]

\* What is published comes from one attempt: no volume is there twice, each was
\* linked once, every journal is that of the volume it updates, and an index
\* that is called whole has a whole volume, whatever attempts came before,
\* wherever they broke off and whichever helper answered.
IndexIsOfOneAttempt ==
    LET index == published.index IN
    /\ \A i, j \in DOMAIN index : index[i].letter = index[j].letter => i = j
    /\ \A i \in DOMAIN index : index[i].finished = 1
    /\ \A k \in DOMAIN published.journals :
          LET start == published.journals[k] IN
          start.volume \in DOMAIN index /\ index[start.volume].letter = start.letter
    /\ published.mode = "mft" => \E i \in DOMAIN index : index[i].got = Batches

\* A build ends although helpers are late, slow or missing, and "the task runs it
\* with --mft-dump, it streams the file names to the dock over a private pipe,
\* and then exits", whoever has gone at the other end.
BuildsEnd == build.at # "idle" ~> build.at = "idle"
DumpsEnd == helper.at # "none" ~> helper.at = "none"

\* Access that was granted is used, also when it was granted during a build, if
\* no helper of an earlier one is in the way and no read, start or wait fails.
Unhindered ==
    /\ rebuild /\ task /\ token.helper = Volumes /\ ~token.elevated
    /\ helper.at = "none" /\ failures = MaxFailures /\ docks = MaxDocks
AccessIsUsed == Unhindered ~> published.mode = "mft"

\* What follows does not hold and no run checks it; the README says why.

\* "All-or-nothing": an index read from the MFT has all of every volume.
WholeDisksOnly ==
    published.mode = "mft" => \A v \in Volumes : \E i \in DOMAIN published.index :
        published.index[i].letter = v /\ published.index[i].got = Batches

\* "Offer the one-time 'enable full-disk search' step": only while it is needed.
OfferedOnce == offer => ~task

=============================================================================
