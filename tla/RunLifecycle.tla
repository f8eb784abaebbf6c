---------------------------- MODULE RunLifecycle ----------------------------
(***************************************************************************)
(* The session's runs, one after the other and overlapping: the terminal   *)
(* UI's thread, the worker thread of every submitted run                   *)
(* (entry/controller.py), and the helper threads of /compact and /summary, *)
(* all writing one conversation (session/session.py) and one session file  *)
(* (io/persistence.py).  What a run does inside its loop is module         *)
(* AgentLoop; here a run only saves, mirrors, and ends.                    *)
(*                                                                         *)
(* A conversation is the sequence of what the user put in it: the prompt   *)
(* of run r is r, Restored a turn of a session saved earlier, Summary the  *)
(* message /summary appends.  A check and the assignment it guards are one *)
(* step where no call separates them, and two steps where one does: a run  *)
(* looks whether it is cancelled and mirrors its messages later, looks     *)
(* whether it is stale and commits later, looks whether it is current and  *)
(* gives the directory back later.  A worker's strayWrite and strayRelease *)
(* note that the generation moved on between the two steps.                *)
(***************************************************************************)
EXTENDS Integers, Sequences, FiniteSets, SequencesExt

CONSTANTS
  MaxRuns,               \* bound: prompts the user submits
  MaxCommands,           \* bound: slash commands that replace the conversation
  Commands,              \* the ones the user gives
  Projects,              \* directories a slash command may name, the session's
                         \* own ("home") not among them
  SlowStart              \* a worker may still be starting (agent.start hooks)
                         \* when the user gives the next command

ASSUME BoundsAssumption == MaxRuns \in Nat /\ MaxCommands \in Nat
ASSUME CommandsAssumption == Commands \subseteq {"clear", "restore", "compact", "summary"}
ASSUME ProjectsAssumption == "home" \notin Projects
ASSUME UserAssumption == SlowStart \in BOOLEAN

Runs == 1..MaxRuns
Helpers == 1..MaxCommands
Restored == 0
Summary == -1
Conversation == Seq(Runs \cup {Restored, Summary})

VARIABLES
  ui,                    \* the UI thread: at the prompt, watching, helping, restoring
  runs, commands,        \* prompts submitted, commands given
  runGen, cancelGen,     \* session.run_generation, session.cancel_generation
  event,                 \* session.cancel_event is set
  history,               \* controller.conversation_history
  last,                  \* session.last_messages
  files, filePath,       \* the session directory; store.file_path
  title, titlePending,   \* store.title is set; store.title_pending
  project,               \* session.project_dir, which a slash command borrows
  compacting,            \* session.compacting
  worker,                \* the worker of every run
  helper,                \* the thread of every /compact and /summary
  opened,                \* the file a /restore in progress has read
  allowed                \* history: what the user put in since the last /clear or
                         \* /restore

conversationVars == <<history, last, allowed>>
fileVars == <<files, filePath, title>>
genVars == <<runGen, cancelGen, event>>
vars == <<ui, runs, commands, genVars, conversationVars, fileVars, titlePending,
          project, compacting, worker, helper, opened>>

NoFile == "none"
Names == {"own", "titled", "saved"}
WorkerPcs == {"none", "starting", "running", "mirroring", "commit", "committing", "title",
              "titling", "flush", "adopt", "ending", "releasing", "gone"}
NoWorker == [pc |-> "none", seq |-> 0, gen |-> 0, cgen |-> 0, msgs |-> <<>>, late |-> FALSE,
             dir |-> "home", seen |-> 0, strayWrite |-> FALSE, strayRelease |-> FALSE]
NoHelper == [pc |-> "none", kind |-> "compact", msgs |-> <<>>]

(* AgentLoop._is_cancelled and _is_stale of run r.                         *)
Stale(r) == worker[r].gen # runGen
Stopped(r) == event \/ worker[r].cgen # cancelGen \/ Stale(r)
(* The generation has moved on since run r last looked.                    *)
Overtaken(r) == worker[r].seen # runGen
(* The controller's own test: is r the last run submitted, with the        *)
(* conversation not replaced since?                                        *)
Current(r) == worker[r].seq = runGen

Init ==
  /\ ui = "prompt" /\ runs = 0 /\ commands = 0
  /\ runGen = 0 /\ cancelGen = 0 /\ event = FALSE
  /\ history = <<>> /\ last = <<>> /\ allowed = {}
  /\ files = [n \in {"saved"} |-> <<Restored>>] /\ filePath = NoFile
  /\ title = FALSE /\ titlePending = FALSE
  /\ project = "home" /\ compacting = FALSE
  /\ worker = [r \in Runs |-> NoWorker]
  /\ helper = [k \in Helpers |-> NoHelper]
  /\ opened = <<>>

-----------------------------------------------------------------------------
(* SessionPersistence, each call under its _io_lock.                       *)

Written(fs, name, ms) == [n \in DOMAIN fs \cup {name} |-> IF n = name THEN ms ELSE fs[n]]
Renamed(fs, from, to) == Written([n \in DOMAIN fs \ {from} |-> fs[n]], to, fs[from])

(* save: the text replaces the session's file, named on the first save.    *)
Save(ms) ==
  /\ filePath' = IF filePath = NoFile THEN "own" ELSE filePath
  /\ files' = Written(files, filePath', ms)
  /\ UNCHANGED title

(* apply_title: the file the store points at now is renamed.               *)
ApplyTitle_ForgetPath ==
  /\ title' = TRUE
  /\ IF filePath # NoFile
     THEN files' = Renamed(files, filePath, "titled")
     ELSE UNCHANGED files
  /\ UNCHANGED filePath
ApplyTitle ==
  /\ title' = TRUE
  /\ IF filePath # NoFile
     THEN /\ files' = Renamed(files, filePath, "titled")
          /\ filePath' = "titled"
     ELSE UNCHANGED <<files, filePath>>

-----------------------------------------------------------------------------
(* The UI thread.  It waits for the run it watches; only Ctrl-C brings it  *)
(* back earlier, so overlapping workers belong to cancelled runs.          *)

AtPrompt ==
  /\ ui = "prompt"
  /\ SlowStart \/ \A r \in Runs : worker[r].pc # "starting"

(* Controller.submit.  A slash command may borrow the project directory:   *)
(* dir is the one the run works in.  What it notes to give back is the     *)
(* directory it found, which is "home" whenever the user is at the prompt. *)
Submit_SameGeneration(dir) ==
  /\ AtPrompt /\ runs < MaxRuns
  /\ runs' = runs + 1 /\ ui' = "watching"
  /\ event' = FALSE
  /\ worker' = [worker EXCEPT ![runs + 1] =
                  [NoWorker EXCEPT !.pc = "starting", !.seq = runGen, !.dir = dir]]
  /\ project' = IF dir # "home" THEN dir ELSE project
  /\ allowed' = allowed \cup {runs + 1}
  /\ UNCHANGED <<commands, runGen, cancelGen, history, last, fileVars, titlePending,
                 compacting, helper, opened>>
Submit(dir) ==
  /\ AtPrompt /\ runs < MaxRuns
  /\ runs' = runs + 1 /\ ui' = "watching"
  /\ runGen' = runGen + 1 /\ event' = FALSE
  /\ worker' = [worker EXCEPT ![runs + 1] =
                  [NoWorker EXCEPT !.pc = "starting", !.seq = runGen', !.dir = dir]]
  /\ project' = IF dir # "home" THEN dir ELSE project
  /\ allowed' = allowed \cup {runs + 1}
  /\ UNCHANGED <<commands, cancelGen, history, last, fileVars, titlePending, compacting,
                 helper, opened>>

SeeRunEnd ==
  /\ ui = "watching" /\ worker[runs].pc = "gone"
  /\ ui' = "prompt"
  /\ UNCHANGED <<runs, commands, genVars, conversationVars, fileVars, titlePending,
                 project, compacting, worker, helper, opened>>

(* _restore of run r's command: the borrow is undone if it is still there  *)
(* by the name of the directory.  (/init and /review, which also hide a    *)
(* tool, release once only; this is the release of the other commands.)    *)
GivesBack(r) == project' = IF project = worker[r].dir THEN "home" ELSE project

(* _abandon_run: Session.cancel, and what the run borrowed is given back.  *)
CtrlC ==
  /\ ui = "watching" /\ ui' = "prompt"
  /\ event' = TRUE /\ cancelGen' = cancelGen + 1
  /\ GivesBack(runs)
  /\ UNCHANGED <<runs, commands, runGen, conversationVars, fileVars, titlePending,
                 compacting, worker, helper, opened>>

Command(name) == AtPrompt /\ name \in Commands /\ commands < MaxCommands

(* Controller.clear_conversation.                                          *)
Clear_KeepGeneration ==
  /\ Command("clear") /\ commands' = commands + 1
  /\ history' = <<>> /\ last' = <<>> /\ allowed' = {}
  /\ UNCHANGED <<ui, runs, genVars, fileVars, titlePending, project,
                 compacting, worker, helper, opened>>
Clear ==
  /\ Command("clear") /\ commands' = commands + 1
  /\ runGen' = runGen + 1
  /\ history' = <<>> /\ last' = <<>> /\ allowed' = {}
  /\ UNCHANGED <<ui, runs, cancelGen, event, fileVars, titlePending, project,
                 compacting, worker, helper, opened>>

(* apply_saved_session: the store is pointed at the file, then the agent   *)
(* and the model are switched, and only then the generation moves on.  A   *)
(* file name may carry a title.                                            *)
RestoreOpens(name) ==
  /\ Command("restore") /\ name \in DOMAIN files
  /\ ui' = "restoring" /\ commands' = commands + 1
  /\ opened' = files[name] /\ filePath' = name
  /\ title' \in {title, TRUE}
  /\ UNCHANGED <<runs, genVars, conversationVars, files, titlePending, project,
                 compacting, worker, helper>>
RestoreApplies ==
  /\ ui = "restoring" /\ ui' = "prompt"
  /\ runGen' = runGen + 1
  /\ history' = opened /\ last' = opened /\ allowed' = ToSet(opened)
  /\ UNCHANGED <<runs, commands, cancelGen, event, fileVars, titlePending, project,
                 compacting, worker, helper, opened>>

(* compact_conversation and summarize_conversation, up to their request.   *)
(* The summary command copies the conversation back whatever happened.     *)
CommandBegins(kind) ==
  /\ Command(kind) /\ commands' = commands + 1
  /\ runGen' = runGen + 1
  /\ IF last = <<>> \/ (kind = "compact" /\ compacting)
     THEN /\ history' = IF kind = "summary" THEN last ELSE history
          /\ UNCHANGED <<ui, compacting, helper>>
     ELSE /\ ui' = "helping"
          /\ helper' = [helper EXCEPT ![commands'] =
                          [pc |-> "asking", kind |-> kind, msgs |-> last]]
          /\ compacting' = (kind = "compact" \/ compacting)
          /\ UNCHANGED history
  /\ UNCHANGED <<runs, cancelGen, event, last, allowed, fileVars, titlePending, project,
                 worker, opened>>

(* Ctrl-C during a command only stops waiting for it.                      *)
LeaveCommand ==
  /\ ui = "helping" /\ ui' = "prompt"
  /\ helper' = [helper EXCEPT ![commands].pc = "left"]
  /\ history' = IF helper[commands].kind = "summary" THEN last ELSE history
  /\ UNCHANGED <<runs, commands, genVars, last, allowed, fileVars, titlePending, project,
                 compacting, worker, opened>>

-----------------------------------------------------------------------------
(* The helper threads.  /compact replaces the conversation by the frame    *)
(* and the prompts it had when it began; /summary appends to what is there *)
(* now.  The UI, if it still waits, takes the result over.                 *)

KeptPlaces(ms) == {i \in 1..Len(ms) : ms[i] # Summary}
KeptPlace(ms, n) ==
  CHOOSE i \in KeptPlaces(ms) : Cardinality({j \in KeptPlaces(ms) : j <= i}) = n
KeepPrompts(ms) ==
  [n \in 1..Cardinality(KeptPlaces(ms)) |-> ms[KeptPlace(ms, n)]]
CommandResult(k) ==
  IF helper[k].kind = "compact" THEN KeepPrompts(helper[k].msgs) ELSE Append(last, Summary)
Awaited(k) == ui = "helping" /\ k = commands

HelperEnds(k) ==
  /\ helper[k].pc \in {"asking", "left"}
  /\ helper' = [helper EXCEPT ![k].pc = IF @ = "asking" THEN "done" ELSE "late"]
  /\ compacting' = (helper[k].kind = "summary" /\ compacting)
  /\ ui' = IF Awaited(k) THEN "prompt" ELSE ui
  /\ UNCHANGED <<runs, commands, genVars, titlePending, project, worker, opened>>

HelperSucceeds(k) ==
  /\ HelperEnds(k)
  /\ last' = CommandResult(k) /\ Save(last')
  /\ history' = IF Awaited(k) THEN last' ELSE history
  /\ allowed' = IF helper[k].kind = "summary" THEN allowed \cup {Summary} ELSE allowed

HelperFails(k) ==
  /\ HelperEnds(k)
  /\ history' = IF Awaited(k) /\ helper[k].kind = "summary" THEN last ELSE history
  /\ UNCHANGED <<last, allowed, fileVars>>

-----------------------------------------------------------------------------
(* A run's worker thread (_run_worker, and the loop it drives).            *)

Goes(r, pc) == worker' = [worker EXCEPT ![r].pc = pc]
Looks(r, pc) == worker' = [worker EXCEPT ![r] = [@ EXCEPT !.pc = pc, !.seen = runGen]]
uiVars == <<ui, runs, commands, runGen, cancelGen, event, compacting, helper, opened, allowed>>

(* The agent.start hooks have returned: the prompt joins the history and   *)
(* the loop is made, which captures the generations it belongs to.         *)
WorkerStarts(r) ==
  /\ worker[r].pc = "starting"
  /\ history' = Append(history, r)
  /\ worker' = [worker EXCEPT ![r] = [@ EXCEPT
                  !.pc = "running", !.gen = runGen, !.cgen = cancelGen, !.msgs = history']]
  /\ UNCHANGED <<uiVars, last, fileVars, titlePending, project>>

(* A response or a tool round of a run that is not stopped.  What follows  *)
(* the check refreshes the shared conversation, and the file when the      *)
(* debounce lets it, without another look: the usage notification, the     *)
(* save and the routing lie in between.                                    *)
RunChecks(r) ==
  /\ worker[r].pc = "running" /\ ~Stopped(r) /\ Looks(r, "mirroring")
  /\ UNCHANGED <<uiVars, history, last, fileVars, titlePending, project>>
RunMirrors(r) ==
  /\ worker[r].pc = "mirroring"
  /\ last' = worker[r].msgs
  /\ worker' = [worker EXCEPT ![r].strayWrite = @ \/ Overtaken(r)]
  /\ UNCHANGED <<uiVars, history, fileVars, titlePending, project>>
RunSaves(r) ==
  /\ worker[r].pc = "mirroring" /\ Save(worker[r].msgs)
  /\ UNCHANGED <<uiVars, history, last, titlePending, project, worker>>
RunGoesOn(r) ==
  /\ worker[r].pc = "mirroring" /\ Goes(r, "running")
  /\ UNCHANGED <<uiVars, history, last, fileVars, titlePending, project>>

RunReturns(r) ==
  /\ worker[r].pc = "running" /\ Goes(r, "commit")
  /\ UNCHANGED <<uiVars, history, last, fileVars, titlePending, project>>

(* run()'s finally: the owner salvages its conversation and commits it;    *)
(* then a cancelled run saves and asks for a title, a finished one the     *)
(* reverse.                                                                *)
RunSalvages_IfNotCancelled(r) ==
  /\ worker[r].pc = "commit" /\ Looks(r, IF Stopped(r) THEN "adopt" ELSE "committing")
  /\ UNCHANGED <<uiVars, history, last, fileVars, titlePending, project>>
RunSalvages(r) ==
  /\ worker[r].pc = "commit" /\ Looks(r, IF Stale(r) THEN "adopt" ELSE "committing")
  /\ UNCHANGED <<uiVars, history, last, fileVars, titlePending, project>>
RunCommits(r) ==
  /\ worker[r].pc = "committing"
  /\ last' = worker[r].msgs
  /\ worker' = [worker EXCEPT ![r].pc = IF Stopped(r) THEN "flush" ELSE "title",
                              ![r].late = Stopped(r),
                              ![r].strayWrite = @ \/ Overtaken(r)]
  /\ UNCHANGED <<uiVars, history, fileVars, titlePending, project>>

RunFlushes(r) ==
  /\ worker[r].pc = "flush" /\ Save(worker[r].msgs)
  /\ Goes(r, IF worker[r].late THEN "title" ELSE "adopt")
  /\ UNCHANGED <<uiVars, history, last, titlePending, project>>

(* generate_session_title: one request at a time, once per session.        *)
AfterTitle(r) == Goes(r, IF worker[r].late THEN "adopt" ELSE "flush")
TitleBegins(r) ==
  /\ worker[r].pc = "title"
  /\ IF title \/ titlePending
     THEN AfterTitle(r) /\ UNCHANGED titlePending
     ELSE Goes(r, "titling") /\ titlePending' = TRUE
  /\ UNCHANGED <<uiVars, history, last, fileVars, project>>
TitleEnds(r) ==
  /\ worker[r].pc = "titling" /\ AfterTitle(r)
  /\ titlePending' = FALSE
  /\ ApplyTitle \/ UNCHANGED fileVars
  /\ UNCHANGED <<uiVars, history, last, project>>

RunAdopts(r) ==
  /\ worker[r].pc = "adopt" /\ Goes(r, "ending")
  /\ history' = IF Current(r) /\ last # <<>> THEN last ELSE history
  /\ UNCHANGED <<uiVars, last, fileVars, titlePending, project>>

(* The current run reports run_finished, and then gives back what its      *)
(* command borrowed.                                                       *)
WorkerEnds_Always(r) ==
  /\ worker[r].pc = "ending" /\ Looks(r, "releasing")
  /\ UNCHANGED <<uiVars, history, last, fileVars, titlePending, project>>
WorkerEnds(r) ==
  /\ worker[r].pc = "ending" /\ Looks(r, IF Current(r) THEN "releasing" ELSE "gone")
  /\ UNCHANGED <<uiVars, history, last, fileVars, titlePending, project>>
WorkerReleases(r) ==
  /\ worker[r].pc = "releasing" /\ GivesBack(r)
  /\ worker' = [worker EXCEPT ![r].pc = "gone", ![r].strayRelease = @ \/ Overtaken(r)]
  /\ UNCHANGED <<uiVars, history, last, fileVars, titlePending>>

Done ==
  /\ ui = "prompt" /\ \A r \in Runs : worker[r].pc \in {"none", "gone"}
  /\ UNCHANGED vars

User ==
  \/ \E dir \in Projects \cup {"home"} : Submit(dir)
  \/ SeeRunEnd \/ CtrlC \/ Clear
  \/ \E name \in Names : RestoreOpens(name)
  \/ RestoreApplies
  \/ \E kind \in {"compact", "summary"} : CommandBegins(kind)
  \/ LeaveCommand
Helper(k) == HelperSucceeds(k) \/ HelperFails(k)
Worker(r) ==
  \/ WorkerStarts(r) \/ RunChecks(r) \/ RunMirrors(r) \/ RunSaves(r) \/ RunGoesOn(r)
  \/ RunReturns(r) \/ RunSalvages(r) \/ RunCommits(r) \/ RunFlushes(r)
  \/ TitleBegins(r) \/ TitleEnds(r) \/ RunAdopts(r) \/ WorkerEnds(r) \/ WorkerReleases(r)

Next == User \/ (\E k \in Helpers : Helper(k)) \/ (\E r \in Runs : Worker(r)) \/ Done

Spec == Init /\ [][Next]_vars

-----------------------------------------------------------------------------
TypeOK ==
  /\ ui \in {"prompt", "watching", "helping", "restoring"}
  /\ runs \in 0..MaxRuns /\ commands \in 0..MaxCommands
  /\ runGen \in Nat /\ cancelGen \in Nat /\ event \in BOOLEAN
  /\ history \in Conversation /\ last \in Conversation /\ opened \in Conversation
  /\ allowed \subseteq Runs \cup {Restored, Summary}
  /\ DOMAIN files \subseteq Names /\ \A n \in DOMAIN files : files[n] \in Conversation
  /\ filePath \in DOMAIN files \cup {NoFile}
  /\ title \in BOOLEAN /\ titlePending \in BOOLEAN /\ compacting \in BOOLEAN
  /\ project \in Projects \cup {"home"}
  /\ worker \in [Runs -> [pc : WorkerPcs, seq : Nat, gen : Nat, cgen : Nat,
                          msgs : Conversation, late : BOOLEAN, dir : Projects \cup {"home"},
                          seen : Nat, strayWrite : BOOLEAN, strayRelease : BOOLEAN]]
  /\ helper \in [Helpers -> [pc : {"none", "asking", "left", "done", "late"}, kind : {"compact", "summary"},
                             msgs : Conversation]]

(* The session never has two runs that both take themselves for its owner, *)
(* however many cancelled workers are still unwinding ("a run superseded   *)
(* between construction and start must not adopt the new generation",      *)
(* AgentLoop.__init__).                                                    *)
InLoop(r) == worker[r].pc \in {"running", "mirroring", "commit", "committing"}
OneOwner ==
  \A r, s \in Runs : InLoop(r) /\ InLoop(s) /\ ~Stale(r) /\ ~Stale(s) => r = s

(* A /compact or /summary the user no longer waits for still applies its   *)
(* result, which the UI tells the user ("the result may still be applied").*)
NoLateCommand == \A k \in Helpers : helper[k].pc # "late"

(* No run whose generation has passed since it looked writes into the      *)
(* shared conversation ("A stale worker (a newer run has started) must     *)
(* never touch shared state", AgentLoop.run).                              *)
NoStrayWrite == \A r \in Runs : ~worker[r].strayWrite

(* Nothing from before the last /clear or /restore comes back: the         *)
(* conversation holds only what the user put in it since ("its salvaged-   *)
(* history commit would resurrect what we just wiped", /clear), while no   *)
(* superseded run has written past its look at the generation.             *)
NothingResurrected ==
  NoLateCommand /\ NoStrayWrite => ToSet(history) \cup ToSet(last) \subseteq allowed

(* The turn of the last run, cancelled or not, is in the conversation the  *)
(* next one starts from, which is the one the view shows ("so it adopts    *)
(* its salvaged partial history and the interrupted turn is not lost",     *)
(* _run_worker), under the same condition.                                 *)
InterruptedTurnKept ==
  \A r \in Runs :
     worker[r].pc \in {"ending", "releasing", "gone"} /\ Current(r) /\ ui # "restoring"
     /\ NoLateCommand /\ NoStrayWrite =>
       history = last /\ r \in ToSet(history)

(* A run keeps the directory its command borrowed while it is watched      *)
(* ("only undo OUR borrow, never clobber a newer run's borrow",            *)
(* _run_slash_command).                                                    *)
BorrowKeptWhileWatched ==
  ui = "watching" /\ worker[runs].dir # "home" /\ worker[runs].pc # "gone" =>
    project = worker[runs].dir

(* So it is while no run was superseded between its look at the generation *)
(* and its release; and the user never finds a directory borrowed at the   *)
(* prompt.                                                                 *)
NoStrayRelease == \A r \in Runs : ~worker[r].strayRelease
BorrowHeld ==
  /\ NoStrayRelease => BorrowKeptWhileWatched
  /\ ui = "prompt" => project = "home"

(* Until the next prompt, the file of a restored session holds what was    *)
(* restored ("so a worker still winding down from a cancelled run cannot   *)
(* clobber the restored history", apply_saved_session).                    *)
RestoredFileKept ==
  /\ ui = "prompt" /\ \A r \in Runs : ~Current(r)
  /\ opened # <<>> /\ history = opened /\ last = opened
  => filePath # NoFile /\ files[filePath] = opened
=============================================================================
