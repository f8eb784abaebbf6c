------------------------- MODULE RunLifecycleProofs -------------------------
(* The runs of a session, for any number of prompts and commands.          *)
EXTENDS RunLifecycle, ConversationProofs

(* A run's worker and a command's helper, as TypeOK has them.              *)
WorkerState == [pc : WorkerPcs, seq : Nat, gen : Nat, cgen : Nat,
                msgs : Conversation, late : BOOLEAN, dir : Projects \cup {"home"},
                seen : Nat, strayWrite : BOOLEAN, strayRelease : BOOLEAN]
HelperState == [pc : {"none", "asking", "left", "done", "late"},
                kind : {"compact", "summary"}, msgs : Conversation]
FilesTyped ==
  /\ DOMAIN files \subseteq Names /\ \A n \in DOMAIN files : files[n] \in Conversation
  /\ filePath \in DOMAIN files \cup {NoFile}
  /\ title \in BOOLEAN

LEMMA ConversationElements ==
  ASSUME NEW ms \in Conversation
  PROVE  /\ ToSet(ms) \subseteq Runs \cup {Restored, Summary}
         /\ \A e : e \in ToSet(ms) <=> \E i \in 1..Len(ms) : ms[i] = e
BY DEF ToSet, Conversation

LEMMA AppendedElement ==
  ASSUME NEW ms \in Conversation, NEW e \in Runs \cup {Restored, Summary}
  PROVE  /\ Append(ms, e) \in Conversation
         /\ ToSet(Append(ms, e)) = ToSet(ms) \cup {e}
         /\ Append(ms, e) # <<>>
<1> DEFINE new == Append(ms, e)
<1>1. /\ new \in Conversation
      /\ Len(new) = Len(ms) + 1 /\ new[Len(ms) + 1] = e
      /\ \A i \in 1..Len(ms) : new[i] = ms[i]
      /\ Len(ms) \in Nat
  BY DEF Conversation
<1> HIDE DEF new
<1>2. new # <<>>
  BY <1>1
<1>3. ASSUME NEW x \in ToSet(new) PROVE x \in ToSet(ms) \cup {e}
  <2>1. PICK i \in 1..Len(new) : new[i] = x
    BY <1>1, ConversationElements
  <2>2. CASE i = Len(ms) + 1
    BY <1>1, <2>1, <2>2
  <2>3. CASE i \in 1..Len(ms)
    BY <1>1, <2>1, <2>3, ConversationElements
  <2> QED BY <1>1, <2>1, <2>2, <2>3
<1>4. ASSUME NEW x \in ToSet(ms) PROVE x \in ToSet(new)
  <2>1. PICK i \in 1..Len(ms) : ms[i] = x
    BY ConversationElements
  <2>2. i \in 1..Len(new) /\ new[i] = x
    BY <1>1, <2>1
  <2> QED BY <1>1, <2>2, ConversationElements
<1>5. e \in ToSet(new)
  <2>1. Len(ms) + 1 \in 1..Len(new)
    BY <1>1
  <2> QED BY <1>1, <2>1, ConversationElements
<1> QED BY <1>1, <1>2, <1>3, <1>4, <1>5 DEF new

(* /compact keeps prompts of the conversation, and nothing else.           *)
LEMMA KeptPrompts ==
  ASSUME NEW ms \in Conversation
  PROVE  KeepPrompts(ms) \in Conversation /\ ToSet(KeepPrompts(ms)) \subseteq ToSet(ms)
<1> DEFINE P == KeptPlaces(ms)
           n == Cardinality(P)
<1>1. P \subseteq 1..Len(ms) /\ Len(ms) \in Nat
  BY DEF KeptPlaces, Conversation
<1>2. n \in Nat
  BY <1>1, FinitePositions
<1>3. \A k \in 1..n : KeptPlace(ms, k) \in P
  <2> TAKE k \in 1..n
  <2>1. \E i \in P : Cardinality({j \in P : j <= i}) = k
    <3> HIDE DEF P
    <3> QED BY <1>1, NthMember
  <2> QED BY <2>1 DEF KeptPlace
<1>4. \A k \in 1..n : ms[KeptPlace(ms, k)] \in ToSet(ms)
  BY <1>1, <1>3, ConversationElements
<1>5. \A k \in 1..n : ms[KeptPlace(ms, k)] \in Runs \cup {Restored, Summary}
  BY <1>4, ConversationElements
<1>6. KeepPrompts(ms) = [k \in 1..n |-> ms[KeptPlace(ms, k)]]
  BY DEF KeepPrompts
<1>7. KeepPrompts(ms) \in Conversation
  <2> HIDE DEF n
  <2> QED BY <1>2, <1>5, <1>6 DEF Conversation
<1>8. Len(KeepPrompts(ms)) = n
  <2> HIDE DEF n
  <2> QED BY <1>2, <1>6
<1> HIDE DEF n
<1>9. \A e \in ToSet(KeepPrompts(ms)) : e \in ToSet(ms)
  BY <1>4, <1>6, <1>7, <1>8, ConversationElements
<1> QED BY <1>7, <1>9

LEMMA WrittenFiles ==
  ASSUME NEW fs, DOMAIN fs \subseteq Names, \A n \in DOMAIN fs : fs[n] \in Conversation,
         NEW name \in Names, NEW ms \in Conversation
  PROVE  /\ DOMAIN Written(fs, name, ms) = DOMAIN fs \cup {name}
         /\ DOMAIN Written(fs, name, ms) \subseteq Names
         /\ \A n \in DOMAIN Written(fs, name, ms) : Written(fs, name, ms)[n] \in Conversation
<1>1. \A n \in DOMAIN fs \cup {name} :
         Written(fs, name, ms)[n] = IF n = name THEN ms ELSE fs[n]
  BY DEF Written
<1>2. DOMAIN Written(fs, name, ms) = DOMAIN fs \cup {name}
  BY DEF Written
<1> QED BY <1>1, <1>2

LEMMA SavedFiles ==
  ASSUME FilesTyped, NEW ms \in Conversation, Save(ms)
  PROVE  FilesTyped'
<1>1. filePath' \in Names /\ files' = Written(files, filePath', ms) /\ title' = title
  BY DEF Save, FilesTyped, Names
<1>2. DOMAIN files \subseteq Names /\ \A n \in DOMAIN files : files[n] \in Conversation
  BY DEF FilesTyped
<1>3. /\ DOMAIN files' = DOMAIN files \cup {filePath'} /\ DOMAIN files' \subseteq Names
      /\ \A n \in DOMAIN files' : files'[n] \in Conversation
  BY <1>1, <1>2, WrittenFiles
<1> QED BY <1>1, <1>3 DEF FilesTyped

LEMMA TitledFiles ==
  ASSUME FilesTyped, ApplyTitle
  PROVE  FilesTyped'
<1>1. CASE filePath = NoFile
  BY <1>1 DEF ApplyTitle, FilesTyped
<1>2. CASE filePath # NoFile
  <2> DEFINE rest == [n \in DOMAIN files \ {filePath} |-> files[n]]
  <2>1. /\ files' = Written(rest, "titled", files[filePath])
        /\ filePath' = "titled" /\ title' = TRUE
    BY <1>2 DEF ApplyTitle, Renamed
  <2>2. DOMAIN rest \subseteq Names /\ \A n \in DOMAIN rest : rest[n] \in Conversation
    BY DEF FilesTyped
  <2>3. files[filePath] \in Conversation /\ "titled" \in Names
    BY <1>2 DEF FilesTyped, Names
  <2> HIDE DEF rest
  <2>4. /\ DOMAIN files' = DOMAIN rest \cup {"titled"} /\ DOMAIN files' \subseteq Names
        /\ \A n \in DOMAIN files' : files'[n] \in Conversation
    BY <2>1, <2>2, <2>3, WrittenFiles
  <2> QED BY <2>1, <2>4 DEF FilesTyped
<1> QED BY <1>1, <1>2
-----------------------------------------------------------------------------
(* What a step of a worker does to its record.                             *)
LEMMA WorkerGoes ==
  ASSUME worker \in [Runs -> WorkerState], NEW r \in Runs, NEW pc \in WorkerPcs, Goes(r, pc)
  PROVE  /\ worker' \in [Runs -> WorkerState]
         /\ \A s \in Runs :
              worker'[s] = IF s = r THEN [worker[s] EXCEPT !.pc = pc] ELSE worker[s]
         /\ worker'[r].pc = pc
         /\ \A s \in Runs : /\ s # r => worker'[s].pc = worker[s].pc
                            /\ worker'[s].seq = worker[s].seq
                            /\ worker'[s].gen = worker[s].gen
                            /\ worker'[s].msgs = worker[s].msgs
                            /\ worker'[s].dir = worker[s].dir
                            /\ worker'[s].seen = worker[s].seen
                            /\ worker'[s].strayWrite = worker[s].strayWrite
                            /\ worker'[s].strayRelease = worker[s].strayRelease
BY DEF Goes, WorkerState

(* The same for a step at which the run looks at the generation.           *)
LEMMA WorkerLooks ==
  ASSUME worker \in [Runs -> WorkerState], NEW r \in Runs, NEW pc \in WorkerPcs,
         runGen \in Nat, Looks(r, pc)
  PROVE  /\ worker' \in [Runs -> WorkerState]
         /\ \A s \in Runs : s # r => worker'[s] = worker[s]
         /\ worker'[r].pc = pc /\ worker'[r].seen = runGen
         /\ worker'[r].seq = worker[r].seq /\ worker'[r].gen = worker[r].gen
         /\ worker'[r].msgs = worker[r].msgs /\ worker'[r].dir = worker[r].dir
         /\ worker'[r].strayWrite = worker[r].strayWrite
         /\ worker'[r].strayRelease = worker[r].strayRelease
<1> DEFINE new == [worker[r] EXCEPT !.pc = pc, !.seen = runGen]
<1>1. worker' = [worker EXCEPT ![r] = new]
  BY DEF Looks
<1>2. worker[r] \in WorkerState
  OBVIOUS
<1>3. /\ new \in WorkerState
      /\ new.pc = pc /\ new.seen = runGen /\ new.seq = worker[r].seq /\ new.gen = worker[r].gen
      /\ new.msgs = worker[r].msgs /\ new.dir = worker[r].dir
      /\ new.strayWrite = worker[r].strayWrite /\ new.strayRelease = worker[r].strayRelease
  BY <1>2 DEF WorkerState
<1> HIDE DEF new
<1>4. /\ worker' \in [Runs -> WorkerState] /\ worker'[r] = new
      /\ \A s \in Runs : s # r => worker'[s] = worker[s]
  BY <1>1, <1>3
<1> QED BY <1>3, <1>4

(* A run's mirror, commit and release: what its record becomes.            *)
MirroredRun(r) == [worker[r] EXCEPT !.strayWrite = @ \/ Overtaken(r)]
CommittedRun(r) == [worker[r] EXCEPT !.pc = IF Stopped(r) THEN "flush" ELSE "title",
                                     !.late = Stopped(r),
                                     !.strayWrite = @ \/ Overtaken(r)]
ReleasedRun(r) == [worker[r] EXCEPT !.pc = "gone", !.strayRelease = @ \/ Overtaken(r)]
LEMMA WorkerStrays ==
  ASSUME TypeOK, NEW r \in Runs
  PROVE  /\ \A new \in {MirroredRun(r), CommittedRun(r), ReleasedRun(r)} :
              /\ new \in WorkerState
              /\ new.seq = worker[r].seq /\ new.gen = worker[r].gen
              /\ new.msgs = worker[r].msgs /\ new.dir = worker[r].dir
              /\ new.seen = worker[r].seen
         /\ MirroredRun(r).pc = worker[r].pc
         /\ CommittedRun(r).pc \in {"flush", "title"} /\ ReleasedRun(r).pc = "gone"
         /\ \A new \in {MirroredRun(r), CommittedRun(r)} :
              /\ new.strayWrite <=> worker[r].strayWrite \/ Overtaken(r)
              /\ new.strayRelease = worker[r].strayRelease
         /\ ReleasedRun(r).strayWrite = worker[r].strayWrite
         /\ ReleasedRun(r).strayRelease <=> worker[r].strayRelease \/ Overtaken(r)
<1>1. worker[r] \in WorkerState
  BY DEF TypeOK, WorkerState
<1>2. Stopped(r) \in BOOLEAN /\ Overtaken(r) \in BOOLEAN
  BY DEF Stopped, Stale, Overtaken, TypeOK
<1>3. /\ (IF Stopped(r) THEN "flush" ELSE "title") \in {"flush", "title"}
      /\ {"flush", "title", "gone"} \subseteq WorkerPcs
  BY DEF WorkerPcs
<1>4. worker[r].strayWrite \in BOOLEAN /\ worker[r].strayRelease \in BOOLEAN
  BY <1>1 DEF WorkerState
<1> DEFINE wrote == worker[r].strayWrite \/ Overtaken(r)
           released == worker[r].strayRelease \/ Overtaken(r)
           stop == Stopped(r)
           next == IF Stopped(r) THEN "flush" ELSE "title"
<1>5. wrote \in BOOLEAN /\ released \in BOOLEAN /\ stop \in BOOLEAN /\ next \in WorkerPcs
  BY <1>2, <1>3, <1>4
<1>6. /\ MirroredRun(r) = [worker[r] EXCEPT !.strayWrite = wrote]
      /\ CommittedRun(r) = [worker[r] EXCEPT !.pc = next, !.late = stop, !.strayWrite = wrote]
      /\ ReleasedRun(r) = [worker[r] EXCEPT !.pc = "gone", !.strayRelease = released]
  BY DEF MirroredRun, CommittedRun, ReleasedRun
<1>7. next \in {"flush", "title"} /\ "gone" \in WorkerPcs
  BY <1>3
<1>8. (wrote <=> worker[r].strayWrite \/ Overtaken(r))
      /\ (released <=> worker[r].strayRelease \/ Overtaken(r))
  OBVIOUS
<1> HIDE DEF wrote, released, stop, next
<1>9. /\ MirroredRun(r) \in WorkerState /\ MirroredRun(r).pc = worker[r].pc
      /\ MirroredRun(r).seq = worker[r].seq /\ MirroredRun(r).gen = worker[r].gen
      /\ MirroredRun(r).msgs = worker[r].msgs /\ MirroredRun(r).dir = worker[r].dir
      /\ MirroredRun(r).seen = worker[r].seen /\ MirroredRun(r).strayWrite = wrote
      /\ MirroredRun(r).strayRelease = worker[r].strayRelease
  BY <1>1, <1>5, <1>6 DEF WorkerState
<1>10. /\ CommittedRun(r) \in WorkerState /\ CommittedRun(r).pc = next
      /\ CommittedRun(r).seq = worker[r].seq /\ CommittedRun(r).gen = worker[r].gen
      /\ CommittedRun(r).msgs = worker[r].msgs /\ CommittedRun(r).dir = worker[r].dir
      /\ CommittedRun(r).seen = worker[r].seen /\ CommittedRun(r).strayWrite = wrote
      /\ CommittedRun(r).strayRelease = worker[r].strayRelease
  BY <1>1, <1>5, <1>6 DEF WorkerState
<1>11. /\ ReleasedRun(r) \in WorkerState /\ ReleasedRun(r).pc = "gone"
      /\ ReleasedRun(r).seq = worker[r].seq /\ ReleasedRun(r).gen = worker[r].gen
      /\ ReleasedRun(r).msgs = worker[r].msgs /\ ReleasedRun(r).dir = worker[r].dir
      /\ ReleasedRun(r).seen = worker[r].seen /\ ReleasedRun(r).strayWrite = worker[r].strayWrite
      /\ ReleasedRun(r).strayRelease = released
  BY <1>1, <1>5, <1>6, <1>7 DEF WorkerState
<1> QED BY <1>7, <1>8, <1>9, <1>10, <1>11

LEMMA NoWorkerTyped ==
  NoWorker \in WorkerState /\ NoHelper \in HelperState
<1>1. <<>> \in Conversation
  BY DEF Conversation
<1> QED BY <1>1, Zenon DEF NoWorker, NoHelper, WorkerState, HelperState, WorkerPcs

LEMMA TypeInit ==
  Init => TypeOK
<1> SUFFICES ASSUME Init PROVE TypeOK
  OBVIOUS
<1> USE BoundsAssumption
<1>1. <<>> \in Conversation /\ <<Restored>> \in Conversation
  BY DEF Conversation
<1>2. worker \in [Runs -> WorkerState] /\ helper \in [Helpers -> HelperState]
  BY NoWorkerTyped DEF Init
<1>3. DOMAIN files \subseteq Names /\ \A n \in DOMAIN files : files[n] \in Conversation
  BY <1>1 DEF Init, Names
<1>4. /\ history \in Conversation /\ last \in Conversation /\ opened \in Conversation
      /\ runs \in 0..MaxRuns /\ commands \in 0..MaxCommands /\ runGen \in Nat /\ cancelGen \in Nat
  BY <1>1 DEF Init
<1>5. /\ event \in BOOLEAN /\ title \in BOOLEAN /\ titlePending \in BOOLEAN
      /\ compacting \in BOOLEAN
  BY DEF Init
<1>6. /\ ui \in {"prompt", "watching", "helping", "restoring"}
      /\ project \in Projects \cup {"home"}
      /\ filePath \in DOMAIN files \cup {NoFile}
      /\ allowed \subseteq Runs \cup {Restored, Summary}
  BY DEF Init
<1> QED BY <1>2, <1>3, <1>4, <1>5, <1>6 DEF TypeOK, WorkerState, HelperState

(* Every step keeps the types.                                             *)
LEMMA TypeStep ==
  ASSUME TypeOK, [Next]_vars
  PROVE  TypeOK'
<1> USE BoundsAssumption
<1>f. FilesTyped
  BY DEF TypeOK, FilesTyped
<1>w. worker \in [Runs -> WorkerState] /\ helper \in [Helpers -> HelperState]
  BY DEF TypeOK, WorkerState, HelperState
<1>k. UNCHANGED fileVars => FilesTyped'
  BY <1>f DEF FilesTyped, fileVars
<1>1. ASSUME NEW dir \in Projects \cup {"home"}, Submit(dir) PROVE TypeOK'
  <2>1. runs + 1 \in Runs /\ runs' \in 0..MaxRuns
    BY <1>1 DEF Submit, TypeOK, Runs
  <2>2. worker' \in [Runs -> WorkerState]
    <3> DEFINE new == [NoWorker EXCEPT !.pc = "starting", !.seq = runGen', !.dir = dir]
    <3>1. runGen' \in Nat
      BY <1>1 DEF Submit, TypeOK
    <3>2. NoWorker \in WorkerState
      BY NoWorkerTyped
    <3>3. new \in WorkerState
      BY <3>1, <3>2 DEF WorkerState, WorkerPcs
    <3>4. worker' = [worker EXCEPT ![runs + 1] = new]
      BY <1>1 DEF Submit
    <3> HIDE DEF new
    <3> QED BY <1>w, <3>3, <3>4
  <2> QED BY <1>1, <2>1, <2>2 DEF Submit, TypeOK, WorkerState, fileVars
<1>2. ASSUME SeeRunEnd PROVE TypeOK'
  BY <1>2 DEF SeeRunEnd, TypeOK, genVars, conversationVars, fileVars
<1>3. ASSUME CtrlC PROVE TypeOK'
  BY <1>3 DEF CtrlC, GivesBack, TypeOK, conversationVars, fileVars
<1>4. ASSUME Clear PROVE TypeOK'
  <2>1. history' \in Conversation /\ last' \in Conversation /\ commands' \in 0..MaxCommands
    BY <1>4 DEF Clear, Command, TypeOK, Conversation
  <2> QED BY <1>4, <2>1 DEF Clear, TypeOK, fileVars
<1>5. ASSUME NEW name \in Names, RestoreOpens(name) PROVE TypeOK'
  <2>1. title' \in BOOLEAN
    <3>1. title \in BOOLEAN /\ title' \in {title, TRUE}
      BY <1>5 DEF RestoreOpens, TypeOK
    <3> QED BY <3>1, Zenon
  <2>2. commands' \in 0..MaxCommands
    BY <1>5 DEF RestoreOpens, Command, TypeOK
  <2>3. /\ ui' = "restoring" /\ opened' = files[name] /\ filePath' = name /\ name \in DOMAIN files
        /\ UNCHANGED <<runs, genVars, conversationVars, files, titlePending, project,
                       compacting, worker, helper>>
    BY <1>5 DEF RestoreOpens
  <2> QED BY <2>1, <2>2, <2>3 DEF TypeOK, genVars, conversationVars
<1>6. ASSUME RestoreApplies PROVE TypeOK'
  <2>1. ToSet(opened) \subseteq Runs \cup {Restored, Summary}
    BY ConversationElements DEF TypeOK
  <2> QED BY <1>6, <2>1 DEF RestoreApplies, TypeOK, fileVars
<1>7. ASSUME NEW kind \in {"compact", "summary"}, CommandBegins(kind) PROVE TypeOK'
  <2>1. commands' \in 0..MaxCommands /\ commands' \in Helpers
    BY <1>7 DEF CommandBegins, Command, TypeOK, Helpers
  <2>2. helper' \in [Helpers -> HelperState]
    BY <1>7, <1>w, <2>1 DEF CommandBegins, HelperState, TypeOK
  <2>3. compacting' \in BOOLEAN /\ ui' \in {ui, "helping"}
    <3>1. compacting \in BOOLEAN
      BY DEF TypeOK
    <3> QED BY <1>7, <3>1, Zenon DEF CommandBegins
  <2>4. history' \in {history, last} /\ runGen' = runGen + 1
    BY <1>7 DEF CommandBegins
  <2>5. UNCHANGED <<runs, cancelGen, event, last, allowed, fileVars, titlePending, project,
                    worker, opened>>
    BY <1>7 DEF CommandBegins
  <2> QED BY <2>1, <2>2, <2>3, <2>4, <2>5 DEF TypeOK, HelperState, fileVars
<1>8. ASSUME LeaveCommand PROVE TypeOK'
  <2>1. helper' \in [Helpers -> HelperState]
    BY <1>8, <1>w DEF LeaveCommand, HelperState
  <2> QED BY <1>8, <2>1 DEF LeaveCommand, TypeOK, HelperState, fileVars, genVars
<1>9. ASSUME NEW k \in Helpers, HelperEnds(k)
      PROVE  /\ helper' \in [Helpers -> HelperState]
             /\ ui' \in {"prompt", "watching", "helping", "restoring"} /\ compacting' \in BOOLEAN
  BY <1>9, <1>w DEF HelperEnds, HelperState, TypeOK
<1>10. ASSUME NEW k \in Helpers, HelperSucceeds(k) PROVE TypeOK'
  <2>1. HelperEnds(k) /\ last' = CommandResult(k) /\ Save(last')
    BY <1>10 DEF HelperSucceeds
  <2>2. CommandResult(k) \in Conversation
    <3>1. helper[k].msgs \in Conversation /\ last \in Conversation
      BY <1>w DEF TypeOK, HelperState
    <3>2. KeepPrompts(helper[k].msgs) \in Conversation /\ Append(last, Summary) \in Conversation
      BY <3>1, KeptPrompts, AppendedElement
    <3> QED BY <3>2 DEF CommandResult
  <2>3. FilesTyped'
    BY <1>f, <2>1, <2>2, SavedFiles
  <2>4. history' \in Conversation /\ allowed' \subseteq Runs \cup {Restored, Summary}
    BY <1>10, <2>1, <2>2 DEF HelperSucceeds, TypeOK
  <2> QED BY <1>9, <2>1, <2>2, <2>3, <2>4 DEF HelperEnds, TypeOK, FilesTyped, HelperState, genVars
<1>11. ASSUME NEW k \in Helpers, HelperFails(k) PROVE TypeOK'
  <2>1. HelperEnds(k)
    BY <1>11 DEF HelperFails
  <2> QED BY <1>9, <1>11, <2>1 DEF HelperFails, HelperEnds, TypeOK, HelperState, fileVars, genVars
<1>12. ASSUME NEW r \in Runs, WorkerStarts(r) PROVE TypeOK'
  <2>1. history' \in Conversation
    BY <1>12, AppendedElement DEF WorkerStarts, TypeOK
  <2>2. worker' \in [Runs -> WorkerState]
    <3> DEFINE new == [worker[r] EXCEPT !.pc = "running", !.gen = runGen, !.cgen = cancelGen,
                                        !.msgs = history']
    <3>1. worker[r] \in WorkerState /\ runGen \in Nat /\ cancelGen \in Nat
      BY <1>w DEF TypeOK
    <3>2. new \in WorkerState
      BY <2>1, <3>1 DEF WorkerState, WorkerPcs
    <3>3. worker' = [worker EXCEPT ![r] = new]
      BY <1>12 DEF WorkerStarts
    <3> HIDE DEF new
    <3> QED BY <1>w, <3>2, <3>3
  <2> QED BY <1>12, <2>1, <2>2 DEF WorkerStarts, TypeOK, WorkerState, uiVars, fileVars
<1>r. runGen \in Nat
  BY DEF TypeOK
<1>13. ASSUME NEW r \in Runs, RunMirrors(r) PROVE TypeOK'
  <2>1. last' \in Conversation
    BY <1>13, <1>w DEF RunMirrors, WorkerState
  <2>2. worker' \in [Runs -> WorkerState]
    <3>1. worker' = [worker EXCEPT ![r] = MirroredRun(r)]
      BY <1>13 DEF RunMirrors, MirroredRun
    <3> QED BY <1>w, <3>1, WorkerStrays
  <2> QED BY <1>13, <2>1, <2>2 DEF RunMirrors, TypeOK, WorkerState, uiVars, fileVars
<1>14. ASSUME NEW r \in Runs, RunReturns(r) PROVE TypeOK'
  <2>1. worker' \in [Runs -> WorkerState]
    BY <1>14, <1>w, WorkerGoes DEF RunReturns, WorkerPcs
  <2> QED BY <1>14, <2>1 DEF RunReturns, TypeOK, WorkerState, uiVars, fileVars
<1>15. ASSUME NEW r \in Runs, RunCommits(r) PROVE TypeOK'
  <2>1. worker' \in [Runs -> WorkerState]
    <3>1. worker' = [worker EXCEPT ![r] = CommittedRun(r)]
      BY <1>15 DEF RunCommits, CommittedRun
    <3> QED BY <1>w, <3>1, WorkerStrays
  <2>2. last' \in Conversation
    BY <1>15, <1>w DEF RunCommits, WorkerState
  <2> QED BY <1>15, <2>1, <2>2 DEF RunCommits, TypeOK, WorkerState, uiVars, fileVars
<1>22. ASSUME NEW r \in Runs, RunChecks(r) \/ RunSalvages(r) PROVE TypeOK'
  <2>1. PICK pc \in WorkerPcs : Looks(r, pc)
    BY <1>22 DEF RunChecks, RunSalvages, WorkerPcs
  <2>2. worker' \in [Runs -> WorkerState]
    BY <1>w, <1>r, <2>1, WorkerLooks
  <2> QED BY <1>22, <2>2 DEF RunChecks, RunSalvages, TypeOK, WorkerState, uiVars, fileVars
<1>23. ASSUME NEW r \in Runs, RunSaves(r) PROVE TypeOK'
  <2>1. FilesTyped'
    BY <1>23, <1>f, <1>w, SavedFiles DEF RunSaves, WorkerState
  <2> QED BY <1>23, <2>1 DEF RunSaves, TypeOK, FilesTyped, uiVars
<1>24. ASSUME NEW r \in Runs, RunGoesOn(r) PROVE TypeOK'
  <2>1. worker' \in [Runs -> WorkerState]
    BY <1>24, <1>w, WorkerGoes DEF RunGoesOn, WorkerPcs
  <2> QED BY <1>24, <2>1 DEF RunGoesOn, TypeOK, WorkerState, uiVars, fileVars
<1>16. ASSUME NEW r \in Runs, RunFlushes(r) PROVE TypeOK'
  <2>1. worker' \in [Runs -> WorkerState]
    <3>1. PICK pc \in WorkerPcs : Goes(r, pc)
      BY <1>16 DEF RunFlushes, WorkerPcs
    <3> QED BY <1>w, <3>1, WorkerGoes
  <2>2. FilesTyped'
    BY <1>16, <1>f, <1>w, SavedFiles DEF RunFlushes, WorkerState
  <2> QED BY <1>16, <2>1, <2>2 DEF RunFlushes, TypeOK, WorkerState, FilesTyped, uiVars
<1>17. ASSUME NEW r \in Runs, TitleBegins(r) PROVE TypeOK'
  <2>1. worker' \in [Runs -> WorkerState]
    BY <1>17, <1>w, WorkerGoes DEF TitleBegins, AfterTitle, WorkerPcs
  <2> QED BY <1>17, <2>1 DEF TitleBegins, TypeOK, WorkerState, uiVars, fileVars
<1>18. ASSUME NEW r \in Runs, TitleEnds(r) PROVE TypeOK'
  <2>1. worker' \in [Runs -> WorkerState]
    BY <1>18, <1>w, WorkerGoes DEF TitleEnds, AfterTitle, WorkerPcs
  <2>2. FilesTyped'
    BY <1>18, <1>f, <1>k, TitledFiles DEF TitleEnds
  <2> QED BY <1>18, <2>1, <2>2 DEF TitleEnds, TypeOK, WorkerState, FilesTyped, uiVars
<1>19. ASSUME NEW r \in Runs, RunAdopts(r) PROVE TypeOK'
  <2>1. worker' \in [Runs -> WorkerState]
    BY <1>19, <1>w, WorkerGoes DEF RunAdopts, WorkerPcs
  <2> QED BY <1>19, <2>1 DEF RunAdopts, TypeOK, WorkerState, uiVars, fileVars
<1>20. ASSUME NEW r \in Runs, WorkerEnds(r) PROVE TypeOK'
  <2>1. PICK pc \in WorkerPcs : Looks(r, pc)
    BY <1>20 DEF WorkerEnds, WorkerPcs
  <2>2. worker' \in [Runs -> WorkerState]
    BY <1>w, <1>r, <2>1, WorkerLooks
  <2> QED BY <1>20, <2>2 DEF WorkerEnds, TypeOK, WorkerState, uiVars, fileVars
<1>25. ASSUME NEW r \in Runs, WorkerReleases(r) PROVE TypeOK'
  <2>1. worker' \in [Runs -> WorkerState]
    <3>1. worker' = [worker EXCEPT ![r] = ReleasedRun(r)]
      BY <1>25 DEF WorkerReleases, ReleasedRun
    <3> QED BY <1>w, <3>1, WorkerStrays
  <2>2. project' \in Projects \cup {"home"}
    BY <1>25 DEF WorkerReleases, GivesBack, TypeOK
  <2> QED BY <1>25, <2>1, <2>2 DEF WorkerReleases, TypeOK, WorkerState, uiVars, fileVars
<1>21. CASE Done \/ UNCHANGED vars
  BY <1>21 DEF Done, TypeOK, vars, genVars, conversationVars, fileVars
<1> QED
  BY <1>1, <1>2, <1>3, <1>4, <1>5, <1>6, <1>7, <1>8, <1>10, <1>11, <1>12, <1>13, <1>14, <1>15,
     <1>16, <1>17, <1>18, <1>19, <1>20, <1>21, <1>22, <1>23, <1>24, <1>25
  DEF Next, User, Helper, Worker

(* Every variable of the session keeps its type (RunLifecycle.TypeOK).     *)
THEOREM TypeCorrect == Spec => []TypeOK
BY TypeInit, TypeStep, PTL DEF Spec
-----------------------------------------------------------------------------
(* The inductive invariant.  Runs are numbered as the user submits them,   *)
(* and their sequence numbers grow; the UI watches the last run, and waits *)
(* for the last command only while no run is current.  A run between its   *)
(* look at the generation and what it does then looked while it was the    *)
(* owner: a generation that has moved since shows.  A run that has not     *)
(* begun has not strayed.                                                  *)
RunsInOrder ==
  \A r \in Runs :
    /\ worker[r].pc = "none" <=> r > runs
    /\ worker[r].seq <= runGen
    /\ \A s \in Runs : s < r /\ r <= runs => worker[s].seq < worker[r].seq
UiKeepsPlace ==
  /\ ui = "watching" => runs >= 1 /\ worker[runs].seq = runGen
  /\ ui = "helping" =>
       /\ commands \in Helpers /\ helper[commands].pc = "asking"
       /\ \A r \in Runs : r <= runs => ~Current(r)
  /\ \A k \in Helpers :
       /\ helper[k].pc = "asking" => ui = "helping" /\ k = commands
       /\ k > commands => helper[k].pc = "none"
Borrower == ui = "watching" /\ worker[runs].dir # "home" /\ worker[runs].pc # "gone"
BorrowKept ==
  /\ Borrower => project \in {"home", worker[runs].dir}
  /\ Borrower /\ NoStrayRelease => project = worker[runs].dir
  /\ ~Borrower => project = "home"
LookedAsOwner ==
  \A r \in Runs :
    /\ worker[r].pc \in {"mirroring", "committing"} => worker[r].seen = worker[r].gen
    /\ worker[r].pc = "releasing" => worker[r].seen = worker[r].seq
    /\ worker[r].pc = "none" => ~worker[r].strayWrite
Order == TypeOK /\ RunsInOrder /\ UiKeepsPlace /\ BorrowKept /\ LookedAsOwner

(* A worker's step changes its own record; it ends once; only when it      *)
(* starts does it take over a generation; only its release touches the     *)
(* directory, and it does not forget that it strayed.                      *)
LEMMA AnyWorkerStep ==
  ASSUME TypeOK, NEW r \in Runs, Worker(r)
  PROVE  /\ ui' = ui /\ runs' = runs /\ commands' = commands /\ runGen' = runGen
         /\ helper' = helper /\ allowed' = allowed
         /\ \A s \in Runs : s # r => worker'[s] = worker[s]
         /\ worker'[r].seq = worker[r].seq /\ worker'[r].dir = worker[r].dir
         /\ worker[r].pc \notin {"none", "gone"} /\ worker'[r].pc \notin {"none", "starting"}
         /\ worker[r].pc # "starting" =>
              worker'[r].gen = worker[r].gen /\ worker'[r].msgs = worker[r].msgs
         /\ worker[r].pc = "starting" =>
              /\ worker'[r].pc = "running" /\ worker'[r].gen = runGen
              /\ worker'[r].msgs = Append(history, r)
         /\ worker[r].strayWrite => worker'[r].strayWrite
         /\ worker[r].strayRelease => worker'[r].strayRelease
         /\ worker[r].pc # "releasing" => project' = project
         /\ worker[r].pc # "releasing" /\ worker'[r].pc = "gone" => ~Current(r)
         /\ worker[r].pc = "releasing" =>
              /\ worker'[r].pc = "gone"
              /\ project' = IF project = worker[r].dir THEN "home" ELSE project
              /\ Overtaken(r) => worker'[r].strayRelease
         /\ worker'[r].pc \in {"mirroring", "committing"} =>
              \/ worker'[r].pc = worker[r].pc /\ worker'[r].seen = worker[r].seen
              \/ worker'[r].seen = runGen /\ ~Stale(r) /\ worker[r].pc # "starting"
         /\ worker'[r].pc = "releasing" => worker'[r].seen = runGen /\ Current(r)
<1> USE DEF uiVars
<1>w. worker \in [Runs -> WorkerState] /\ runGen \in Nat
  BY DEF TypeOK, WorkerState
<1>r. worker[r] \in WorkerState
  BY <1>w
<1>1. CASE WorkerStarts(r)
  <2> DEFINE new == [worker[r] EXCEPT !.pc = "running", !.gen = runGen, !.cgen = cancelGen,
                                      !.msgs = history']
  <2>1. worker' = [worker EXCEPT ![r] = new]
    BY <1>1 DEF WorkerStarts
  <2>2. /\ new.pc = "running" /\ new.gen = runGen /\ new.msgs = Append(history, r)
        /\ new.seq = worker[r].seq /\ new.dir = worker[r].dir
        /\ new.strayWrite = worker[r].strayWrite /\ new.strayRelease = worker[r].strayRelease
    BY <1>1, <1>r DEF WorkerStarts, WorkerState
  <2> HIDE DEF new
  <2>3. worker'[r] = new /\ \A s \in Runs : s # r => worker'[s] = worker[s]
    BY <1>w, <2>1
  <2> QED BY <1>1, <2>2, <2>3 DEF WorkerStarts
<1>2. CASE RunMirrors(r)
  <2> DEFINE new == MirroredRun(r)
  <2>1. worker' = [worker EXCEPT ![r] = new]
    BY <1>2 DEF RunMirrors, MirroredRun
  <2>2. /\ new.seq = worker[r].seq /\ new.gen = worker[r].gen /\ new.msgs = worker[r].msgs
        /\ new.dir = worker[r].dir /\ new.seen = worker[r].seen /\ new.pc = worker[r].pc
        /\ worker[r].strayWrite => new.strayWrite
        /\ new.strayRelease = worker[r].strayRelease
    BY WorkerStrays
  <2> HIDE DEF new
  <2>3. worker'[r] = new /\ \A s \in Runs : s # r => worker'[s] = worker[s]
    BY <1>w, <2>1
  <2> QED BY <1>2, <2>2, <2>3 DEF RunMirrors
<1>3. ASSUME NEW pc \in WorkerPcs \ {"none", "starting"}, Goes(r, pc)
      PROVE  /\ \A s \in Runs : s # r => worker'[s] = worker[s]
             /\ worker'[r].seq = worker[r].seq /\ worker'[r].dir = worker[r].dir
             /\ worker'[r].gen = worker[r].gen /\ worker'[r].msgs = worker[r].msgs
             /\ worker'[r].strayWrite = worker[r].strayWrite
             /\ worker'[r].strayRelease = worker[r].strayRelease
             /\ worker'[r].pc = pc
  BY <1>3, <1>w, WorkerGoes
<1>4. CASE RunReturns(r)
  BY <1>3, <1>4 DEF RunReturns, WorkerPcs
<1>5. CASE RunCommits(r)
  <2> DEFINE new == CommittedRun(r)
  <2>1. worker' = [worker EXCEPT ![r] = new]
    BY <1>5 DEF RunCommits, CommittedRun
  <2>2. /\ new.seq = worker[r].seq /\ new.gen = worker[r].gen /\ new.msgs = worker[r].msgs
        /\ new.dir = worker[r].dir /\ new.pc \in {"flush", "title"}
        /\ worker[r].strayWrite => new.strayWrite
        /\ new.strayRelease = worker[r].strayRelease
    BY WorkerStrays
  <2> HIDE DEF new
  <2>3. worker'[r] = new /\ \A s \in Runs : s # r => worker'[s] = worker[s]
    BY <1>w, <2>1
  <2> QED BY <1>5, <2>2, <2>3 DEF RunCommits
<1>6. CASE RunFlushes(r)
  <2>1. PICK pc \in {"title", "adopt"} : Goes(r, pc)
    BY <1>6 DEF RunFlushes
  <2> QED BY <1>3, <1>6, <2>1 DEF RunFlushes, WorkerPcs
<1>7. CASE TitleBegins(r)
  <2>1. PICK pc \in {"titling", "flush", "adopt"} : Goes(r, pc)
    BY <1>7 DEF TitleBegins, AfterTitle
  <2> QED BY <1>3, <1>7, <2>1 DEF TitleBegins, WorkerPcs
<1>8. CASE TitleEnds(r)
  <2>1. PICK pc \in {"flush", "adopt"} : Goes(r, pc)
    BY <1>8 DEF TitleEnds, AfterTitle
  <2> QED BY <1>3, <1>8, <2>1 DEF TitleEnds, WorkerPcs
<1>9. CASE RunAdopts(r)
  BY <1>3, <1>9 DEF RunAdopts, WorkerPcs
<1>l. ASSUME NEW pc \in WorkerPcs, Looks(r, pc)
      PROVE  /\ \A s \in Runs : s # r => worker'[s] = worker[s]
             /\ worker'[r].seq = worker[r].seq /\ worker'[r].dir = worker[r].dir
             /\ worker'[r].gen = worker[r].gen /\ worker'[r].msgs = worker[r].msgs
             /\ worker'[r].strayWrite = worker[r].strayWrite
             /\ worker'[r].strayRelease = worker[r].strayRelease
             /\ worker'[r].pc = pc /\ worker'[r].seen = runGen
  BY <1>l, <1>w, WorkerLooks
<1>10. CASE WorkerEnds(r)
  BY <1>l, <1>10 DEF WorkerEnds, WorkerPcs
<1>11. CASE RunChecks(r)
  <2>1. ~Stale(r)
    BY <1>11 DEF RunChecks, Stopped
  <2> QED BY <1>l, <1>11, <2>1 DEF RunChecks, WorkerPcs
<1>12. CASE RunSalvages(r)
  BY <1>l, <1>12 DEF RunSalvages, WorkerPcs
<1>13. CASE RunSaves(r)
  BY <1>13 DEF RunSaves
<1>14. CASE RunGoesOn(r)
  BY <1>3, <1>14 DEF RunGoesOn, WorkerPcs
<1>15. CASE WorkerReleases(r)
  <2> DEFINE new == ReleasedRun(r)
  <2>1. worker' = [worker EXCEPT ![r] = new]
    BY <1>15 DEF WorkerReleases, ReleasedRun
  <2>2. /\ new.seq = worker[r].seq /\ new.gen = worker[r].gen /\ new.msgs = worker[r].msgs
        /\ new.dir = worker[r].dir /\ new.pc = "gone"
        /\ new.strayWrite = worker[r].strayWrite
        /\ worker[r].strayRelease \/ Overtaken(r) => new.strayRelease
    BY WorkerStrays
  <2> HIDE DEF new
  <2>3. worker'[r] = new /\ \A s \in Runs : s # r => worker'[s] = worker[s]
    BY <1>w, <2>1
  <2> QED BY <1>15, <2>2, <2>3 DEF WorkerReleases, GivesBack
<1> QED BY <1>1, <1>2, <1>4, <1>5, <1>6, <1>7, <1>8, <1>9, <1>10, <1>11, <1>12, <1>13, <1>14,
           <1>15 DEF Worker

(* A helper ends once, and gives the UI back if it still waits.            *)
LEMMA AnyHelperStep ==
  ASSUME TypeOK, NEW k \in Helpers, Helper(k)
  PROVE  /\ runs' = runs /\ commands' = commands /\ runGen' = runGen /\ worker' = worker
         /\ project' = project
         /\ ui' = IF Awaited(k) THEN "prompt" ELSE ui
         /\ \A j \in Helpers : j # k => helper'[j] = helper[j]
         /\ \/ helper[k].pc = "asking" /\ helper'[k].pc = "done"
            \/ helper[k].pc = "left" /\ helper'[k].pc = "late"
<1>1. HelperEnds(k)
  BY DEF Helper, HelperSucceeds, HelperFails
<1>2. helper \in [Helpers -> HelperState]
  BY DEF TypeOK, HelperState
<1> QED BY <1>1, <1>2 DEF HelperEnds, HelperState, genVars

LEMMA OrderInit ==
  Init => Order
<1> SUFFICES ASSUME Init PROVE RunsInOrder /\ UiKeepsPlace /\ BorrowKept /\ LookedAsOwner
  BY TypeInit DEF Order
<1>1. \A r \in Runs : worker[r].pc = "none" /\ worker[r].seq = 0 /\ worker[r].strayWrite = FALSE
  BY DEF Init, NoWorker
<1>2. \A k \in Helpers : helper[k].pc = "none"
  BY DEF Init, NoHelper
<1> QED BY <1>1, <1>2, BoundsAssumption
        DEF Init, RunsInOrder, UiKeepsPlace, BorrowKept, Borrower, LookedAsOwner, Runs, Helpers

(* The steps of the user, which number the runs and the commands.          *)
LEMMA OrderSubmit ==
  ASSUME Order, NEW dir \in Projects \cup {"home"}, Submit(dir)
  PROVE  RunsInOrder' /\ UiKeepsPlace' /\ BorrowKept' /\ LookedAsOwner'
<1> DEFINE new == runs + 1
<1>1. /\ new \in Runs /\ runs \in Nat /\ runs' = new /\ ui' = "watching" /\ runGen' = runGen + 1
      /\ ui = "prompt" /\ helper' = helper /\ commands' = commands /\ runGen \in Nat
  BY BoundsAssumption DEF Order, TypeOK, Submit, AtPrompt, Runs
<1>2. /\ worker'[new].pc = "starting" /\ worker'[new].seq = runGen + 1
      /\ worker'[new].dir = dir
      /\ \A r \in Runs : r # new => worker'[r] = worker[r]
  BY <1>1 DEF Order, TypeOK, Submit, NoWorker
<1>3. \A r \in Runs : r \in Nat /\ worker[r].seq \in Nat
  BY DEF Order, TypeOK, Runs
<1>4. RunsInOrder'
  <2> SUFFICES ASSUME NEW r \in Runs
               PROVE  /\ worker'[r].pc = "none" <=> r > new
                      /\ worker'[r].seq <= runGen + 1
                      /\ \A s \in Runs : s < r /\ r <= new => worker'[s].seq < worker'[r].seq
    BY <1>1 DEF RunsInOrder
  <2>1. /\ worker[r].pc = "none" <=> r > runs
        /\ \A s \in Runs : worker[s].seq <= runGen
        /\ \A s \in Runs : s < r /\ r <= runs => worker[s].seq < worker[r].seq
    BY DEF Order, RunsInOrder
  <2> HIDE DEF new
  <2>2. CASE r = new
    BY <1>1, <1>2, <1>3, <2>1, <2>2 DEF new
  <2>3. CASE r # new
    <3>1. worker'[r] = worker[r] /\ (r > new <=> r > runs) /\ (r <= new <=> r <= runs)
      BY <1>1, <1>2, <1>3, <2>3 DEF new
    <3>2. \A s \in Runs : s < r /\ r <= runs => worker'[s] = worker[s]
      BY <1>1, <1>2, <1>3 DEF new
    <3> QED BY <1>1, <1>3, <2>1, <3>1, <3>2
  <2> QED BY <2>2, <2>3
<1>5. UiKeepsPlace'
  <2> HIDE DEF new
  <2>1. new >= 1 /\ worker'[runs'].seq = runGen'
    BY <1>1, <1>2 DEF new
  <2> QED BY <1>1, <2>1 DEF Order, UiKeepsPlace
<1>6. BorrowKept'
  <2> HIDE DEF new
  <2>1. worker'[runs'].dir = dir /\ worker'[runs'].pc # "gone"
    BY <1>1, <1>2
  <2>2. project = "home"
    BY <1>1 DEF Order, BorrowKept, Borrower
  <2>3. project' = IF dir # "home" THEN dir ELSE project
    BY DEF Submit
  <2> QED BY <1>1, <2>1, <2>2, <2>3 DEF BorrowKept, Borrower
<1>7. LookedAsOwner'
  <2> HIDE DEF new
  <2> QED BY <1>2 DEF Order, LookedAsOwner
<1> QED BY <1>4, <1>5, <1>6, <1>7

LEMMA OrderUser ==
  ASSUME Order, User
  PROVE  RunsInOrder' /\ UiKeepsPlace' /\ BorrowKept' /\ LookedAsOwner'
<1>t. /\ runGen \in Nat /\ runs \in 0..MaxRuns /\ commands \in 0..MaxCommands
      /\ \A r \in Runs : r \in 1..MaxRuns /\ worker[r].seq \in Nat
      /\ helper \in [Helpers -> HelperState] /\ MaxRuns \in Nat /\ MaxCommands \in Nat
  BY BoundsAssumption DEF Order, TypeOK, HelperState, Runs
<1>o. RunsInOrder /\ UiKeepsPlace /\ BorrowKept /\ LookedAsOwner
  BY DEF Order
<1>1. ASSUME worker' = worker, runs' = runs, runGen' \in {runGen, runGen + 1}
      PROVE  /\ RunsInOrder'
             /\ LookedAsOwner' /\ (NoStrayRelease' <=> NoStrayRelease)
             /\ runGen' = runGen + 1 => \A r \in Runs : ~Current(r)'
  <2>1. \A r \in Runs : worker[r].seq <= runGen' /\ (runGen' = runGen + 1 => worker[r].seq # runGen')
    BY <1>t, <1>o, <1>1 DEF RunsInOrder
  <2> QED BY <1>o, <1>1, <2>1 DEF RunsInOrder, Current, LookedAsOwner, NoStrayRelease
<1>2. CASE SeeRunEnd
  BY <1>1, <1>2, <1>o DEF SeeRunEnd, UiKeepsPlace, BorrowKept, Borrower, genVars
<1>3. CASE CtrlC
  <2>1. project' = "home"
    BY <1>3, <1>o DEF CtrlC, GivesBack, BorrowKept, Borrower
  <2> QED BY <1>1, <1>3, <1>o, <2>1 DEF CtrlC, UiKeepsPlace, BorrowKept, Borrower
<1>4. CASE Clear
  <2>1. ui = "prompt"
    BY <1>4 DEF Clear, Command, AtPrompt
  <2>2. commands' = commands + 1 /\ UNCHANGED <<ui, runs, project, worker, helper>>
        /\ runGen' = runGen + 1
    BY <1>4 DEF Clear
  <2>3. \A k \in Helpers : k > commands' => k > commands
    BY <1>t, <2>2 DEF Helpers
  <2> QED BY <1>1, <1>o, <2>1, <2>2, <2>3 DEF UiKeepsPlace, BorrowKept, Borrower
<1>5. CASE \E name \in Names : RestoreOpens(name)
  <2>1. ui = "prompt" /\ ui' = "restoring"
    BY <1>5 DEF RestoreOpens, Command, AtPrompt
  <2>2. commands' = commands + 1 /\ UNCHANGED <<runs, runGen, project, worker, helper>>
    BY <1>5 DEF RestoreOpens, genVars
  <2>3. \A k \in Helpers : k > commands' => k > commands
    BY <1>t, <2>2 DEF Helpers
  <2> QED BY <1>1, <1>o, <2>1, <2>2, <2>3 DEF UiKeepsPlace, BorrowKept, Borrower
<1>6. CASE RestoreApplies
  BY <1>1, <1>6, <1>o DEF RestoreApplies, UiKeepsPlace, BorrowKept, Borrower
<1>7. CASE \E kind \in {"compact", "summary"} : CommandBegins(kind)
  <2>1. PICK kind \in {"compact", "summary"} : CommandBegins(kind)
    BY <1>7
  <2>2. ui = "prompt" /\ commands' = commands + 1 /\ commands' \in Helpers
    BY <1>t, <2>1 DEF CommandBegins, Command, AtPrompt, Helpers
  <2>3. runGen' = runGen + 1 /\ UNCHANGED <<runs, project, worker>>
    BY <2>1 DEF CommandBegins
  <2>4. \/ ui' = ui /\ helper' = helper
        \/ /\ ui' = "helping" /\ helper'[commands'].pc = "asking"
           /\ \A k \in Helpers : k # commands' => helper'[k] = helper[k]
    BY <1>t, <2>1, <2>2 DEF CommandBegins
  <2>5. \A k \in Helpers : k > commands' => k > commands /\ k # commands'
    BY <1>t, <2>2 DEF Helpers
  <2>6. \A k \in Helpers : helper[k].pc # "asking"
    BY <1>o, <2>2 DEF UiKeepsPlace
  <2>7. UiKeepsPlace'
    BY <1>1, <1>o, <2>2, <2>3, <2>4, <2>5, <2>6 DEF UiKeepsPlace
  <2> QED BY <1>1, <1>o, <2>2, <2>3, <2>4, <2>7 DEF BorrowKept, Borrower
<1>8. CASE LeaveCommand
  <2>1. \A k \in Helpers : helper'[k].pc = IF k = commands THEN "left" ELSE helper[k].pc
    BY <1>t, <1>8 DEF LeaveCommand, HelperState
  <2>2. commands \in Helpers => ~(commands > commands)
    BY <1>t
  <2>3. ui = "helping" /\ ui' = "prompt" /\ UNCHANGED <<runs, commands, runGen, project, worker>>
    BY <1>8 DEF LeaveCommand, genVars
  <2> QED BY <1>1, <1>o, <2>1, <2>2, <2>3 DEF UiKeepsPlace, BorrowKept, Borrower
<1>9. ASSUME NEW dir \in Projects \cup {"home"}, Submit(dir) PROVE RunsInOrder' /\ UiKeepsPlace' /\ BorrowKept' /\ LookedAsOwner'
  BY <1>9, OrderSubmit
<1> QED BY <1>2, <1>3, <1>4, <1>5, <1>6, <1>7, <1>8, <1>9 DEF User

LEMMA OrderHelper ==
  ASSUME Order, NEW k \in Helpers, Helper(k)
  PROVE  RunsInOrder' /\ UiKeepsPlace' /\ BorrowKept' /\ LookedAsOwner'
<1>1. /\ runs' = runs /\ commands' = commands /\ runGen' = runGen /\ worker' = worker
      /\ project' = project /\ ui' = IF Awaited(k) THEN "prompt" ELSE ui
      /\ \A j \in Helpers : j # k => helper'[j] = helper[j]
      /\ helper'[k].pc \in {"done", "late"} /\ helper[k].pc \in {"asking", "left"}
  BY AnyHelperStep DEF Order
<1>2. RunsInOrder'
  BY <1>1 DEF Order, RunsInOrder
<1>3. UiKeepsPlace'
  BY <1>1 DEF Order, UiKeepsPlace, Awaited, Current
<1>4. BorrowKept'
  BY <1>1 DEF Order, BorrowKept, Borrower, Awaited, NoStrayRelease
<1>5. LookedAsOwner'
  BY <1>1 DEF Order, LookedAsOwner
<1> QED BY <1>2, <1>3, <1>4, <1>5

LEMMA OrderWorker ==
  ASSUME Order, NEW r \in Runs, Worker(r)
  PROVE  RunsInOrder' /\ UiKeepsPlace' /\ BorrowKept' /\ LookedAsOwner'
<1>1. /\ ui' = ui /\ runs' = runs /\ commands' = commands /\ runGen' = runGen
      /\ helper' = helper
      /\ \A s \in Runs : s # r => worker'[s] = worker[s]
      /\ worker'[r].seq = worker[r].seq /\ worker'[r].dir = worker[r].dir
      /\ worker[r].pc \notin {"none", "gone"} /\ worker'[r].pc # "none"
      /\ worker[r].pc # "starting" => worker'[r].gen = worker[r].gen
      /\ worker[r].strayRelease => worker'[r].strayRelease
      /\ worker[r].pc # "releasing" => project' = project
      /\ worker[r].pc # "releasing" /\ worker'[r].pc = "gone" => ~Current(r)
      /\ worker[r].pc = "releasing" =>
           /\ worker'[r].pc = "gone"
           /\ project' = IF project = worker[r].dir THEN "home" ELSE project
           /\ Overtaken(r) => worker'[r].strayRelease
      /\ worker'[r].pc \in {"mirroring", "committing"} =>
           \/ worker'[r].pc = worker[r].pc /\ worker'[r].seen = worker[r].seen
           \/ worker'[r].seen = runGen /\ ~Stale(r) /\ worker[r].pc # "starting"
      /\ worker'[r].pc = "releasing" => worker'[r].seen = runGen /\ Current(r)
  BY AnyWorkerStep DEF Order
<1>2. \A s \in Runs : /\ worker'[s].seq = worker[s].seq
                      /\ worker'[s].dir = worker[s].dir
                      /\ worker'[s].pc = "none" <=> worker[s].pc = "none"
                      /\ s # r => worker'[s].pc = worker[s].pc
  BY <1>1
<1>3. RunsInOrder'
  BY <1>1, <1>2 DEF Order, RunsInOrder
<1>4. ui = "watching" => runs \in Runs
  BY DEF Order, UiKeepsPlace, TypeOK, Runs
<1>5. UiKeepsPlace'
  BY <1>1, <1>2, <1>4 DEF Order, UiKeepsPlace, Current
<1>n. NoStrayRelease' => NoStrayRelease /\ (worker[r].pc = "releasing" => ~Overtaken(r))
  BY <1>1 DEF NoStrayRelease
<1>6. BorrowKept'
  <2>1. CASE ui = "watching"
    <3>1. /\ runs \in Runs /\ Current(runs)
      BY <1>4, <2>1 DEF Order, UiKeepsPlace, Current
    <3>2. CASE r = runs
      BY <1>1, <1>n, <2>1, <3>1, <3>2 DEF Order, BorrowKept, Borrower
    <3>3. CASE r # runs
      <4>1. ~Current(r)
        <5>1. r <= runs /\ r < runs
          BY <1>1, <3>1, <3>3, BoundsAssumption DEF Order, RunsInOrder, Runs
        <5>2. worker[r].seq < worker[runs].seq /\ worker[r].seq \in Nat /\ worker[runs].seq \in Nat
          BY <3>1, <5>1 DEF Order, RunsInOrder, TypeOK, Runs
        <5> QED BY <3>1, <5>2 DEF Current
      <4>2. worker[r].pc = "releasing" => Overtaken(r)
        BY <4>1 DEF Order, LookedAsOwner, Overtaken, Current
      <4>3. worker'[runs] = worker[runs] /\ project' \in {project, "home"}
        BY <1>1, <3>1, <3>3
      <4>4. NoStrayRelease' => NoStrayRelease /\ project' = project
        BY <1>1, <1>n, <4>2
      <4>5. Borrower' <=> Borrower
        BY <1>1, <4>3 DEF Borrower
      <4> QED BY <1>1, <4>3, <4>4, <4>5 DEF Order, BorrowKept
    <3> QED BY <3>2, <3>3
  <2>2. CASE ui # "watching"
    BY <1>1, <2>2 DEF Order, BorrowKept, Borrower
  <2> QED BY <2>1, <2>2
<1>7. LookedAsOwner'
  <2>1. \A s \in Runs : /\ worker[s].pc \in {"mirroring", "committing"} => worker[s].seen = worker[s].gen
                        /\ worker[s].pc = "releasing" => worker[s].seen = worker[s].seq
                        /\ worker[s].pc = "none" => ~worker[s].strayWrite
    BY DEF Order, LookedAsOwner
  <2>2. worker'[r].pc \in {"mirroring", "committing"} => worker'[r].seen = worker'[r].gen
    BY <1>1, <2>1 DEF Stale
  <2>3. worker'[r].pc = "releasing" => worker'[r].seen = worker'[r].seq
    BY <1>1 DEF Current
  <2> QED BY <1>1, <2>1, <2>2, <2>3 DEF LookedAsOwner
<1> QED BY <1>3, <1>5, <1>6, <1>7

(* The order is inductive whether or not a worker may start late.          *)
LEMMA OrderStep ==
  ASSUME Order, [Next]_vars
  PROVE  Order'
<1>1. TypeOK'
  BY TypeStep DEF Order
<1>2. RunsInOrder' /\ UiKeepsPlace' /\ BorrowKept' /\ LookedAsOwner'
  <2>1. CASE Done \/ UNCHANGED vars
    BY <2>1 DEF Done, vars, genVars, Order, RunsInOrder, UiKeepsPlace, BorrowKept, Borrower,
                Current, LookedAsOwner, NoStrayRelease
  <2> QED BY <2>1, OrderUser, OrderHelper, OrderWorker DEF Next
<1> QED BY <1>1, <1>2 DEF Order

(* A run keeps the directory its command borrowed while it is watched, as  *)
(* long as no run was superseded between its look at the generation and    *)
(* its release, and the prompt always finds it given back, however many    *)
(* cancelled workers unwind meanwhile (RunLifecycle.BorrowHeld).           *)
THEOREM BorrowIsHeld == Spec => []BorrowHeld
<1>1. Order => BorrowHeld
  BY DEF Order, BorrowKept, Borrower, BorrowHeld, BorrowKeptWhileWatched
<1> QED BY <1>1, OrderInit, OrderStep, PTL DEF Spec
-----------------------------------------------------------------------------
(* When no worker is still starting at the prompt, a run belongs to the    *)
(* generation it was submitted in, the conversation holds nothing but what *)
(* the user put in since it was last replaced, and the turn of the current *)
(* run is in every conversation it wrote, as long as no command ended late *)
(* and no superseded run wrote.                                            *)
Undisturbed == NoLateCommand /\ NoStrayWrite
StartsAtOnce ==
  \A r \in Runs :
    /\ worker[r].pc = "starting" => r = runs /\ Current(r) /\ ui \in {"prompt", "watching"}
    /\ worker[r].pc \notin {"none", "starting"} => worker[r].gen = worker[r].seq
OnlyAllowed ==
  /\ \A r \in Runs : r <= runs /\ Current(r) => r \in allowed
  /\ Undisturbed =>
       /\ ToSet(history) \subseteq allowed /\ ToSet(last) \subseteq allowed
       /\ \A r \in Runs : r <= runs /\ worker[r].pc # "starting" /\ Current(r) =>
            ToSet(worker[r].msgs) \subseteq allowed
       /\ \A k \in Helpers : helper[k].pc = "asking" => ToSet(helper[k].msgs) \subseteq allowed
TurnKept ==
  \A r \in Runs : r <= runs /\ Current(r) =>
    /\ worker[r].pc \in {"running", "mirroring", "commit", "committing"} =>
         r \in ToSet(worker[r].msgs)
    /\ Undisturbed =>
         /\ worker[r].pc \in {"title", "titling", "flush", "adopt", "ending", "releasing",
                              "gone"} => r \in ToSet(last)
         /\ worker[r].pc \in {"ending", "releasing", "gone"} => history = last
Ownership == Order /\ StartsAtOnce /\ OnlyAllowed /\ TurnKept

LEMMA OneCurrent ==
  ASSUME Order, NEW r \in Runs, NEW s \in Runs, r <= runs, s <= runs, Current(r), Current(s)
  PROVE  r = s
<1>1. r \in Nat /\ s \in Nat /\ worker[r].seq \in Nat /\ worker[s].seq \in Nat
  BY DEF Order, TypeOK, Runs
<1> QED BY <1>1 DEF Order, RunsInOrder, Current

(* What a worker's step writes into the conversation.                      *)
LEMMA WorkerWrites ==
  ASSUME TypeOK, NEW r \in Runs, Worker(r)
  PROVE  \/ /\ worker[r].pc = "starting" /\ worker'[r].pc = "running"
            /\ history' = Append(history, r) /\ last' = last
         \/ /\ worker[r].pc \in {"running", "mirroring"}
            /\ worker'[r].pc \in {"running", "mirroring", "commit"}
            /\ history' = history
            /\ \/ last' = last
               \/ /\ worker[r].pc = "mirroring" /\ last' = worker[r].msgs
                  /\ Overtaken(r) => worker'[r].strayWrite
         \/ /\ worker[r].pc = "commit" /\ history' = history /\ last' = last
            /\ worker'[r].pc = IF Stale(r) THEN "adopt" ELSE "committing"
         \/ /\ worker[r].pc = "committing" /\ worker'[r].pc \in {"flush", "title"}
            /\ history' = history /\ last' = worker[r].msgs
            /\ Overtaken(r) => worker'[r].strayWrite
         \/ /\ worker[r].pc \in {"title", "titling", "flush"}
            /\ worker'[r].pc \in {"title", "titling", "flush", "adopt"}
            /\ history' = history /\ last' = last
         \/ /\ worker[r].pc = "adopt" /\ worker'[r].pc = "ending" /\ last' = last
            /\ history' = IF Current(r) /\ last # <<>> THEN last ELSE history
         \/ /\ worker[r].pc \in {"ending", "releasing"}
            /\ worker'[r].pc \in {"releasing", "gone"}
            /\ history' = history /\ last' = last
<1>w. worker \in [Runs -> WorkerState] /\ runGen \in Nat
  BY DEF TypeOK, WorkerState
<1>3. ASSUME NEW pc \in WorkerPcs \ {"none", "starting"}, Goes(r, pc) PROVE worker'[r].pc = pc
  BY <1>3, <1>w, WorkerGoes
<1>l. ASSUME NEW pc \in WorkerPcs, Looks(r, pc) PROVE worker'[r].pc = pc
  BY <1>l, <1>w, WorkerLooks
<1>1. CASE WorkerStarts(r)
  BY <1>1, AnyWorkerStep DEF WorkerStarts
<1>2. CASE RunMirrors(r)
  <2> DEFINE new == MirroredRun(r)
  <2>1. worker' = [worker EXCEPT ![r] = new]
    BY <1>2 DEF RunMirrors, MirroredRun
  <2>2. new.pc = worker[r].pc /\ (Overtaken(r) => new.strayWrite)
    BY WorkerStrays
  <2> HIDE DEF new
  <2>3. worker'[r] = new
    BY <1>w, <2>1
  <2> QED BY <1>2, <2>2, <2>3 DEF RunMirrors
<1>4. CASE RunReturns(r)
  <2>1. worker'[r].pc = "commit"
    BY <1>3, <1>4 DEF RunReturns, WorkerPcs
  <2> QED BY <1>4, <2>1 DEF RunReturns
<1>5. CASE RunCommits(r)
  <2> DEFINE new == CommittedRun(r)
  <2>1. worker' = [worker EXCEPT ![r] = new]
    BY <1>5 DEF RunCommits, CommittedRun
  <2>2. new.pc \in {"flush", "title"} /\ (Overtaken(r) => new.strayWrite)
    BY WorkerStrays
  <2> HIDE DEF new
  <2>3. worker'[r] = new
    BY <1>w, <2>1
  <2> QED BY <1>5, <2>2, <2>3 DEF RunCommits
<1>6. CASE RunFlushes(r)
  <2>1. PICK pc \in {"title", "adopt"} : Goes(r, pc)
    BY <1>6 DEF RunFlushes
  <2> QED BY <1>3, <1>6, <2>1 DEF RunFlushes, WorkerPcs
<1>7. CASE TitleBegins(r)
  <2>1. PICK pc \in {"titling", "flush", "adopt"} : Goes(r, pc)
    BY <1>7 DEF TitleBegins, AfterTitle
  <2> QED BY <1>3, <1>7, <2>1 DEF TitleBegins, WorkerPcs
<1>8. CASE TitleEnds(r)
  <2>1. PICK pc \in {"flush", "adopt"} : Goes(r, pc)
    BY <1>8 DEF TitleEnds, AfterTitle
  <2> QED BY <1>3, <1>8, <2>1 DEF TitleEnds, WorkerPcs
<1>9. CASE RunAdopts(r)
  BY <1>3, <1>9 DEF RunAdopts, WorkerPcs
<1>10. CASE WorkerEnds(r)
  BY <1>l, <1>10 DEF WorkerEnds, WorkerPcs
<1>11. CASE RunChecks(r)
  BY <1>l, <1>11 DEF RunChecks, WorkerPcs
<1>12. CASE RunSalvages(r)
  BY <1>l, <1>12 DEF RunSalvages, WorkerPcs
<1>13. CASE RunSaves(r)
  BY <1>13 DEF RunSaves
<1>14. CASE RunGoesOn(r)
  BY <1>3, <1>14 DEF RunGoesOn, WorkerPcs
<1>15. CASE WorkerReleases(r)
  <2>1. worker'[r].pc = "gone"
    BY <1>15, AnyWorkerStep DEF WorkerReleases
  <2> QED BY <1>15, <2>1 DEF WorkerReleases
<1> QED BY <1>1, <1>2, <1>4, <1>5, <1>6, <1>7, <1>8, <1>9, <1>10, <1>11, <1>12, <1>13, <1>14,
           <1>15 DEF Worker

LEMMA OwnershipInit ==
  Init => Ownership
<1> SUFFICES ASSUME Init PROVE StartsAtOnce /\ OnlyAllowed /\ TurnKept
  BY OrderInit DEF Ownership
<1>1. \A r \in Runs : worker[r].pc = "none" /\ ~(r <= runs)
  BY BoundsAssumption DEF Init, NoWorker, Runs
<1>2. \A k \in Helpers : helper[k].pc = "none"
  BY DEF Init, NoHelper
<1>3. ToSet(history) = {} /\ ToSet(last) = {}
  BY DEF Init, ToSet
<1> QED BY <1>1, <1>2, <1>3 DEF StartsAtOnce, OnlyAllowed, TurnKept

LEMMA OwnershipUser ==
  ASSUME Ownership, ~SlowStart, User
  PROVE  StartsAtOnce' /\ OnlyAllowed' /\ TurnKept'
<1>o. /\ Order /\ StartsAtOnce /\ OnlyAllowed /\ TurnKept
      /\ runs \in Nat /\ runGen \in Nat /\ MaxRuns \in Nat
      /\ \A r \in Runs : r \in Nat /\ worker[r].seq \in Nat /\ worker[r].seq <= runGen
      /\ \A r \in Runs : worker[r].pc = "none" <=> r > runs
      /\ helper \in [Helpers -> HelperState]
  <2>1. /\ Order /\ StartsAtOnce /\ OnlyAllowed /\ TurnKept /\ TypeOK /\ RunsInOrder
    BY DEF Ownership, Order
  <2>2. /\ runs \in Nat /\ runGen \in Nat /\ MaxRuns \in Nat
        /\ helper \in [Helpers -> HelperState]
        /\ \A r \in Runs : r \in Nat /\ worker[r].seq \in Nat
    BY <2>1, BoundsAssumption DEF TypeOK, HelperState, Runs
  <2> QED BY <2>1, <2>2 DEF RunsInOrder
<1>p. ui \notin {"prompt", "watching"} => \A r \in Runs : worker[r].pc # "starting"
  BY <1>o DEF StartsAtOnce
<1>a. AtPrompt => ui = "prompt" /\ \A r \in Runs : worker[r].pc # "starting"
  BY DEF AtPrompt
<1>n. \A r \in Runs : r > runs => ~worker[r].strayWrite
  BY <1>o DEF Order, LookedAsOwner
<1>q. ui = "prompt" => \A k \in Helpers : helper[k].pc # "asking"
  BY <1>o DEF Order, UiKeepsPlace
(* A command that moves the generation on leaves no run current.           *)
<1>g. ASSUME runGen' = runGen + 1, worker' = worker, runs' = runs,
             \A r \in Runs : worker[r].pc # "starting"
      PROVE  StartsAtOnce' /\ TurnKept' /\ \A r \in Runs : ~Current(r)'
  <2>1. \A r \in Runs : worker[r].seq # runGen'
    BY <1>o, <1>g
  <2>2. \A r \in Runs : ~Current(r)'
    BY <1>g, <2>1 DEF Current
  <2>3. StartsAtOnce'
    BY <1>o, <1>g DEF StartsAtOnce
  <2> QED BY <2>2, <2>3 DEF TurnKept
<1>1. ASSUME NEW dir \in Projects \cup {"home"}, Submit(dir)
      PROVE  StartsAtOnce' /\ OnlyAllowed' /\ TurnKept'
  <2>0. PICK new \in Runs : new = runs + 1 /\ runs' = new
    BY <1>1, <1>o DEF Submit, Runs
  <2>1. /\ ui' = "watching" /\ runGen' = runGen + 1
        /\ UNCHANGED <<history, last, helper>> /\ allowed' = allowed \cup {new}
        /\ \A r \in Runs : worker[r].pc # "starting"
    BY <1>1, <1>a, <2>0 DEF Submit
  <2>2. /\ worker'[new].pc = "starting" /\ worker'[new].seq = runGen + 1
        /\ \A r \in Runs : r # new => worker'[r] = worker[r]
    BY <1>1, <2>0 DEF Order, Ownership, TypeOK, Submit, NoWorker
  <2>3. \A r \in Runs : r # new => ~Current(r)'
    BY <1>o, <2>1, <2>2 DEF Current
  <2>4. Current(new)'
    BY <2>1, <2>2 DEF Current
  <2>5. Undisturbed' => Undisturbed
    <3>1. ~worker[new].strayWrite
      BY <1>n, <1>o, <2>0
    <3> QED BY <2>1, <2>2, <3>1 DEF Undisturbed, NoLateCommand, NoStrayWrite
  <2>6. StartsAtOnce'
    BY <1>o, <2>0, <2>1, <2>2, <2>4 DEF StartsAtOnce
  <2>7. OnlyAllowed'
    BY <1>o, <2>0, <2>1, <2>2, <2>3, <2>5 DEF OnlyAllowed
  <2>8. TurnKept'
    BY <2>2, <2>3 DEF TurnKept
  <2> QED BY <2>6, <2>7, <2>8
<1>2. CASE SeeRunEnd \/ CtrlC
  <2>1. /\ UNCHANGED <<runs, runGen, history, last, allowed, worker, helper>>
        /\ ui = "watching" /\ ui' = "prompt"
    BY <1>2 DEF SeeRunEnd, CtrlC, genVars, conversationVars
  <2> QED BY <1>o, <2>1 DEF StartsAtOnce, OnlyAllowed, TurnKept, Undisturbed,
                             NoLateCommand, NoStrayWrite, Current
<1>3. CASE Clear
  <2>1. /\ UNCHANGED <<ui, runs, worker, helper>> /\ runGen' = runGen + 1 /\ AtPrompt
        /\ history' = <<>> /\ last' = <<>>
    BY <1>3 DEF Clear, Command
  <2>2. ToSet(history') = {} /\ ToSet(last') = {}
    BY <2>1 DEF ToSet
  <2>3. OnlyAllowed'
    BY <1>a, <1>g, <1>q, <2>1, <2>2 DEF OnlyAllowed
  <2> QED BY <1>a, <1>g, <2>1, <2>3
<1>4. CASE \E name \in Names : RestoreOpens(name)
  <2>1. /\ UNCHANGED <<runs, runGen, history, last, allowed, worker, helper>> /\ AtPrompt
    BY <1>4 DEF RestoreOpens, Command, genVars, conversationVars
  <2> QED BY <1>o, <1>a, <2>1 DEF StartsAtOnce, OnlyAllowed, TurnKept, Undisturbed,
                             NoLateCommand, NoStrayWrite, Current
<1>5. CASE RestoreApplies
  <2>1. /\ UNCHANGED <<runs, worker, helper>> /\ runGen' = runGen + 1 /\ ui = "restoring"
        /\ history' = opened /\ last' = opened /\ allowed' = ToSet(opened)
    BY <1>5 DEF RestoreApplies
  <2>2. \A k \in Helpers : helper'[k].pc # "asking"
    BY <1>o, <2>1 DEF Order, UiKeepsPlace
  <2>3. OnlyAllowed'
    BY <1>g, <1>p, <2>1, <2>2 DEF OnlyAllowed
  <2> QED BY <1>g, <1>p, <2>1, <2>3
<1>6. ASSUME NEW kind \in {"compact", "summary"}, CommandBegins(kind)
      PROVE  StartsAtOnce' /\ OnlyAllowed' /\ TurnKept'
  <2>1. /\ UNCHANGED <<runs, worker, last, allowed>> /\ runGen' = runGen + 1 /\ AtPrompt
        /\ history' \in {history, last} /\ commands' = commands + 1
    BY <1>6 DEF CommandBegins, Command
  <2>2. \/ helper' = helper
        \/ helper' = [helper EXCEPT ![commands'] =
                        [pc |-> "asking", kind |-> kind, msgs |-> last]]
    BY <1>6 DEF CommandBegins
  <2>3. \A k \in Helpers : \/ helper'[k] = helper[k]
                           \/ /\ helper[k].pc = "none" /\ helper'[k].pc = "asking"
                              /\ helper'[k].msgs = last
    <3>1. commands' \in Helpers => helper[commands'].pc = "none"
      <4>1. commands \in Nat
        BY DEF Ownership, Order, TypeOK
      <4> QED BY <1>o, <2>1, <4>1 DEF Order, UiKeepsPlace
    <3> QED BY <1>o, <2>2, <3>1
  <2>4. Undisturbed' => Undisturbed
    BY <2>1, <2>3 DEF Undisturbed, NoLateCommand, NoStrayWrite
  <2>5. OnlyAllowed'
    BY <1>o, <1>a, <1>g, <2>1, <2>3, <2>4 DEF OnlyAllowed
  <2> QED BY <1>a, <1>g, <2>1, <2>5
<1>7. CASE LeaveCommand
  <2>1. /\ UNCHANGED <<runs, runGen, last, allowed, worker>> /\ ui = "helping" /\ ui' = "prompt"
        /\ history' \in {history, last}
        /\ helper' = [helper EXCEPT ![commands].pc = "left"]
    BY <1>7 DEF LeaveCommand, genVars
  <2>2. \A k \in Helpers : \/ helper'[k] = helper[k]
                           \/ helper[k].pc = "asking" /\ helper'[k].pc = "left"
    BY <1>o, <2>1 DEF Order, UiKeepsPlace, HelperState
  <2>3. Undisturbed' => Undisturbed
    BY <2>1, <2>2 DEF Undisturbed, NoLateCommand, NoStrayWrite
  <2>4. \A r \in Runs : r <= runs => ~Current(r)
    BY <1>o, <2>1 DEF Order, UiKeepsPlace
  <2>5. \A r \in Runs : Current(r)' <=> Current(r)
    BY <2>1 DEF Current
  <2>6. OnlyAllowed'
    BY <1>o, <2>1, <2>2, <2>3, <2>4, <2>5 DEF OnlyAllowed
  <2>7. TurnKept'
    BY <2>1, <2>4, <2>5 DEF TurnKept
  <2>8. StartsAtOnce'
    BY <1>o, <1>p, <2>1 DEF StartsAtOnce
  <2> QED BY <2>6, <2>7, <2>8
<1> QED BY <1>1, <1>2, <1>3, <1>4, <1>5, <1>6, <1>7 DEF User

LEMMA OwnershipHelper ==
  ASSUME Ownership, NEW k \in Helpers, Helper(k)
  PROVE  StartsAtOnce' /\ OnlyAllowed' /\ TurnKept'
<1>1. /\ runs' = runs /\ runGen' = runGen /\ worker' = worker
      /\ ui' = IF Awaited(k) THEN "prompt" ELSE ui
      /\ \A j \in Helpers : j # k => helper'[j] = helper[j]
      /\ \/ helper[k].pc = "asking" /\ helper'[k].pc = "done"
         \/ helper[k].pc = "left" /\ helper'[k].pc = "late"
  BY AnyHelperStep DEF Ownership, Order
<1>o. Order /\ StartsAtOnce /\ OnlyAllowed /\ TurnKept
  BY DEF Ownership
<1>2. StartsAtOnce'
  BY <1>o, <1>1 DEF StartsAtOnce, Awaited, Current
<1>3. \A r \in Runs : Current(r)' <=> Current(r)
  BY <1>1 DEF Current
<1>4. Undisturbed' =>
        /\ Undisturbed /\ helper[k].pc = "asking"
        /\ \A r \in Runs : r <= runs => ~Current(r)
  <2>1. Undisturbed' => Undisturbed /\ helper[k].pc = "asking"
    BY <1>1 DEF Undisturbed, NoLateCommand, NoStrayWrite
  <2> QED BY <1>o, <2>1 DEF Order, UiKeepsPlace
<1>5. TurnKept'
  BY <1>o, <1>1, <1>3, <1>4 DEF TurnKept
<1>6. allowed \subseteq allowed'
  BY DEF Helper, HelperSucceeds, HelperFails
<1>7. Undisturbed /\ helper[k].pc = "asking" =>
        ToSet(last') \subseteq allowed' /\ history' \in {history, last, last'}
  <2>1. CASE HelperFails(k)
    BY <1>o, <2>1 DEF HelperFails, OnlyAllowed
  <2>2. CASE HelperSucceeds(k)
    <3>1. /\ last' = CommandResult(k) /\ history' \in {history, last'}
          /\ allowed' = IF helper[k].kind = "summary" THEN allowed \cup {Summary} ELSE allowed
      BY <2>2 DEF HelperSucceeds
    <3>2. /\ helper[k].msgs \in Conversation /\ last \in Conversation
          /\ helper[k].kind \in {"compact", "summary"}
      BY <1>o DEF Order, TypeOK
    <3>3. /\ ToSet(KeepPrompts(helper[k].msgs)) \subseteq ToSet(helper[k].msgs)
          /\ ToSet(Append(last, Summary)) = ToSet(last) \cup {Summary}
      BY <3>2, KeptPrompts, AppendedElement
    <3>4. ASSUME Undisturbed, helper[k].pc = "asking" PROVE ToSet(last') \subseteq allowed'
      <4>1. ToSet(helper[k].msgs) \subseteq allowed /\ ToSet(last) \subseteq allowed
        BY <1>o, <3>4 DEF OnlyAllowed
      <4> QED BY <3>1, <3>2, <3>3, <4>1 DEF CommandResult
    <3> QED BY <1>1, <3>1, <3>4
  <2> QED BY <2>1, <2>2 DEF Helper
<1>8. OnlyAllowed'
  <2>1. \A r \in Runs : r <= runs' /\ Current(r)' => r \in allowed'
    BY <1>o, <1>1, <1>3, <1>6 DEF OnlyAllowed
  <2>2. ASSUME Undisturbed'
        PROVE  /\ ToSet(history') \subseteq allowed' /\ ToSet(last') \subseteq allowed'
               /\ \A j \in Helpers : helper'[j].pc = "asking" =>
                                       ToSet(helper'[j].msgs) \subseteq allowed'
    <3>1. ToSet(last') \subseteq allowed' /\ history' \in {history, last, last'}
      BY <1>1, <1>4, <1>7, <2>2
    <3>2. /\ ToSet(history) \subseteq allowed /\ ToSet(last) \subseteq allowed
          /\ \A j \in Helpers : helper[j].pc = "asking" => ToSet(helper[j].msgs) \subseteq allowed
      BY <1>o, <1>4, <2>2 DEF OnlyAllowed
    <3>3. \A j \in Helpers : helper'[j].pc = "asking" => helper'[j] = helper[j]
      BY <1>1
    <3> QED BY <1>6, <3>1, <3>2, <3>3
  <2> QED BY <1>1, <1>3, <1>4, <2>1, <2>2 DEF OnlyAllowed
<1> QED BY <1>2, <1>5, <1>8

LEMMA OwnershipWorker ==
  ASSUME Ownership, NEW r \in Runs, Worker(r)
  PROVE  StartsAtOnce' /\ OnlyAllowed' /\ TurnKept'
<1>o. Order /\ StartsAtOnce /\ OnlyAllowed /\ TurnKept /\ TypeOK
  BY DEF Ownership, Order
<1>1. /\ ui' = ui /\ runs' = runs /\ runGen' = runGen /\ helper' = helper /\ allowed' = allowed
      /\ \A s \in Runs : s # r => worker'[s] = worker[s]
      /\ worker'[r].seq = worker[r].seq
      /\ worker[r].pc \notin {"none", "gone"} /\ worker'[r].pc \notin {"none", "starting"}
      /\ worker[r].pc # "starting" =>
           worker'[r].gen = worker[r].gen /\ worker'[r].msgs = worker[r].msgs
      /\ worker[r].pc = "starting" =>
           /\ worker'[r].pc = "running" /\ worker'[r].gen = runGen
           /\ worker'[r].msgs = Append(history, r)
      /\ worker[r].strayWrite => worker'[r].strayWrite
  BY <1>o, AnyWorkerStep
<1>2. \A s \in Runs : Current(s)' <=> Current(s)
  BY <1>1 DEF Current
<1>3. Undisturbed' => Undisturbed /\ ~worker'[r].strayWrite
  BY <1>1 DEF Undisturbed, NoLateCommand, NoStrayWrite
<1>4. r <= runs
  BY <1>1, BoundsAssumption DEF Ownership, Order, RunsInOrder, TypeOK, Runs
<1>5. /\ worker[r].pc = "starting" => Current(r)
      /\ worker[r].pc # "starting" => (Stale(r) <=> ~Current(r))
  BY <1>o, <1>1 DEF StartsAtOnce, Stale, Current
<1>6. StartsAtOnce'
  BY <1>o, <1>1, <1>2, <1>5 DEF StartsAtOnce, Current
<1>c. history \in Conversation /\ last \in Conversation
  BY <1>o DEF TypeOK
<1>7. ToSet(Append(history, r)) = ToSet(history) \cup {r}
  BY <1>c, AppendedElement
(* A run that is not current writes nothing, or strays.                    *)
<1>s. ~Current(r) /\ worker[r].pc \in {"mirroring", "committing"} => Overtaken(r)
  BY <1>o, <1>5 DEF Order, LookedAsOwner, Overtaken, Stale
<1>8. ~Current(r) /\ Undisturbed' => history' = history /\ last' = last
  BY <1>o, <1>3, <1>5, <1>s, WorkerWrites
<1>9. OnlyAllowed'
  <2>1. ASSUME Undisturbed'
        PROVE  /\ ToSet(history') \subseteq allowed /\ ToSet(last') \subseteq allowed
               /\ \A s \in Runs : s <= runs /\ worker'[s].pc # "starting" /\ Current(s) =>
                    ToSet(worker'[s].msgs) \subseteq allowed
    <3>1. /\ ToSet(history) \subseteq allowed /\ ToSet(last) \subseteq allowed
          /\ Current(r) => r \in allowed
          /\ worker[r].pc # "starting" /\ Current(r) => ToSet(worker[r].msgs) \subseteq allowed
          /\ \A s \in Runs : s <= runs /\ worker[s].pc # "starting" /\ Current(s) =>
               ToSet(worker[s].msgs) \subseteq allowed
      BY <1>o, <1>3, <1>4, <2>1 DEF OnlyAllowed
    <3>2. worker[r].pc = "starting" => ToSet(Append(history, r)) \subseteq allowed
      BY <1>5, <1>7, <3>1
    <3>3. history' \in {history, last} \/ (worker[r].pc = "starting" /\ history' = Append(history, r))
      BY <1>o, WorkerWrites
    <3>4. last' = last \/ (Current(r) /\ worker[r].pc # "starting" /\ last' = worker[r].msgs)
      BY <1>o, <1>3, <1>5, <1>s, <2>1, WorkerWrites
    <3>5. Current(r) => ToSet(worker'[r].msgs) \subseteq allowed
      BY <1>1, <3>1, <3>2
    <3> QED BY <1>1, <3>1, <3>2, <3>3, <3>4, <3>5
  <2> QED BY <1>o, <1>1, <1>2, <1>3, <2>1 DEF OnlyAllowed
<1>10. TurnKept'
  <2> SUFFICES ASSUME NEW s \in Runs, s <= runs, Current(s)
               PROVE  /\ worker'[s].pc \in {"running", "mirroring", "commit", "committing"}
                           => s \in ToSet(worker'[s].msgs)
                      /\ Undisturbed' =>
                           /\ worker'[s].pc \in {"title", "titling", "flush", "adopt", "ending",
                                                "releasing", "gone"} => s \in ToSet(last')
                           /\ worker'[s].pc \in {"ending", "releasing", "gone"} => history' = last'
    BY <1>1, <1>2 DEF TurnKept
  <2>k. /\ worker[s].pc \in {"running", "mirroring", "commit", "committing"}
             => s \in ToSet(worker[s].msgs)
        /\ Undisturbed' =>
             /\ worker[s].pc \in {"title", "titling", "flush", "adopt", "ending", "releasing",
                                  "gone"} => s \in ToSet(last)
             /\ worker[s].pc \in {"ending", "releasing", "gone"} => history = last
    BY <1>o, <1>3 DEF TurnKept
  <2>1. CASE s # r
    <3>1. ~Current(r)
      BY <1>o, <1>4, <2>1, OneCurrent
    <3> QED BY <1>1, <1>8, <2>1, <2>k, <3>1
  <2>2. CASE s = r
    <3>1. ToSet(<<>>) = {}
      BY DEF ToSet
    <3>2. r \in ToSet(last) => last # <<>>
      BY <3>1
    <3>3. worker[r].pc = "starting" => r \in ToSet(worker'[r].msgs)
      BY <1>1, <1>7
    <3> QED BY <1>o, <1>1, <1>5, <2>2, <2>k, <3>2, <3>3, WorkerWrites
  <2> QED BY <2>1, <2>2
<1> QED BY <1>6, <1>9, <1>10

LEMMA OwnershipStep ==
  ASSUME ~SlowStart, Ownership, [Next]_vars
  PROVE  Ownership'
<1>1. Order'
  BY OrderStep DEF Ownership
<1>2. StartsAtOnce' /\ OnlyAllowed' /\ TurnKept'
  <2>1. CASE Done \/ UNCHANGED vars
    BY <2>1 DEF Done, vars, genVars, conversationVars, Ownership, StartsAtOnce, OnlyAllowed,
                TurnKept, Current, Undisturbed, NoLateCommand, NoStrayWrite
  <2> QED BY <2>1, OwnershipUser, OwnershipHelper, OwnershipWorker DEF Next
<1> QED BY <1>1, <1>2 DEF Ownership

LEMMA OwnershipHolds ==
  ASSUME ~SlowStart
  PROVE  Spec => []Ownership
<1>1. Ownership /\ [Next]_vars => Ownership'
  BY OwnershipStep
<1> QED BY <1>1, OwnershipInit, PTL DEF Spec

(* However many cancelled workers still unwind, at most one run in its     *)
(* loop takes itself for the owner of the session (RunLifecycle.OneOwner), *)
(* when a worker's start hooks return before the user's next command.      *)
THEOREM OneOwnerOnly ==
  ASSUME ~SlowStart
  PROVE  Spec => []OneOwner
<1>1. Ownership => OneOwner
  <2> SUFFICES ASSUME Ownership, NEW r \in Runs, NEW s \in Runs,
                      InLoop(r), InLoop(s), ~Stale(r), ~Stale(s)
               PROVE  r = s
    BY DEF OneOwner
  <2>1. worker[r].pc \notin {"none", "starting"} /\ worker[s].pc \notin {"none", "starting"}
    BY DEF InLoop
  <2>2. r <= runs /\ s <= runs
    BY <2>1, BoundsAssumption DEF Ownership, Order, RunsInOrder, TypeOK, Runs
  <2>3. Current(r) /\ Current(s)
    BY <2>1 DEF Ownership, StartsAtOnce, Stale, Current
  <2> QED BY <2>2, <2>3, OneCurrent DEF Ownership
<1> QED BY <1>1, OwnershipHolds, PTL

(* Nothing from before the last /clear or /restore comes back into the     *)
(* conversation (RunLifecycle.NothingResurrected), as long as no run was   *)
(* superseded between its look at the generation and its write; under the  *)
(* same condition, without which a run of RunLifecycleClear violates it.   *)
THEOREM ClearedStaysCleared ==
  ASSUME ~SlowStart
  PROVE  Spec => []NothingResurrected
<1>1. Ownership => NothingResurrected
  BY DEF Ownership, OnlyAllowed, NothingResurrected, Undisturbed
<1> QED BY <1>1, OwnershipHolds, PTL

(* The turn of the last run, cancelled or not, is in the conversation the  *)
(* next one starts from (RunLifecycle.InterruptedTurnKept), under the same *)
(* two conditions.                                                         *)
THEOREM TurnIsKept ==
  ASSUME ~SlowStart
  PROVE  Spec => []InterruptedTurnKept
<1>1. Ownership => InterruptedTurnKept
  <2> SUFFICES ASSUME Ownership, NEW r \in Runs, worker[r].pc \in {"ending", "releasing", "gone"},
                      Current(r), Undisturbed
               PROVE  history = last /\ r \in ToSet(history)
    BY DEF InterruptedTurnKept, Undisturbed
  <2>1. r <= runs
    BY BoundsAssumption DEF Ownership, Order, RunsInOrder, TypeOK, Runs
  <2> QED BY <2>1 DEF Ownership, TurnKept
<1> QED BY <1>1, OwnershipHolds, PTL
=============================================================================
