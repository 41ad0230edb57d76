----------------------------- MODULE Admission -----------------------------
(***************************************************************************)
(* How a submission becomes a Run (controlplane/admission.go, tasks.go,    *)
(* procedures.go, pipelines.go, critique.go).  AdmitWork looks for a Run   *)
(* of the request key, reads the pause, creates or adopts a Task and       *)
(* admits it, in that order and each on its own: duplicates, operators and *)
(* restarts come between.  Every other operation is one transaction.       *)
(*                                                                         *)
(* A Run has one Work here, in the one repository, and its approval is     *)
(* left to WorkLifecycle.  Generations are left out: a request made from a *)
(* stale one is refused whole.  Ghosts: a Task's by (who created it) and   *)
(* edited, a Run's wanted and since (how many Runs there were when its     *)
(* Work was last opened), and a request's known.                           *)
(***************************************************************************)
EXTENDS Naturals, Sequences, FiniteSets, SequencesExt

CONSTANTS
  Clients,        \* HTTP requests to AdmitWork under way at once
  Submissions,    \* bound: what they submit
  TaskKeys,       \* bound: request keys used with RunTask
  ProcedureKeys,  \* bound: request keys used with AdmitProcedureRun and ReplaceWork
  Names, Prompts, \* of Tasks
  Ids, Titles,    \* of the Pipelines operators create
  MaxTasks,       \* 500 in the code
  MaxPipelines,   \* 200 in the code
  MaxRuns,        \* bound: Runs of RunTask, AdmitProcedureRun and ReplaceWork
  MaxEdits        \* bound: changes of Tasks, Pipelines and the pause

\* A built-in Pipeline, its id and the title it is installed under.  The other two
\* are like it but are never repaired, and are left out.
Critique == "critique"

AdmissionConstants ==
  /\ MaxTasks \in Nat /\ MaxPipelines \in Nat \ {0} /\ MaxRuns \in Nat /\ MaxEdits \in Nat
  /\ \A s \in Submissions :
       /\ s.name \in Names /\ s.prompt \in Prompts
       /\ s.source \in {"orchestrator", "cockpit", "github"}
  /\ Critique \in Titles \ Ids

VARIABLES
  tasks,      \* in order of creation; nothing ever deletes one
  pipelines,  \* id -> title, and whether its stages are what the server installs
  runs,       \* in order of admission
  paused,     \* factory_settings.paused
  request,    \* client -> where its AdmitWork stands
  answers,    \* ghost: key and Run of every answer AdmitWork gave
  server,     \* "up", or "failed" when it could not start
  edits       \* how many changes operators made, for the bound

vars == <<tasks, pipelines, runs, paused, request, answers, server, edits>>

Idle == [step |-> "idle"]
Definition == [title |-> Critique, edited |-> FALSE]

Init ==
  /\ tasks = <<>> /\ runs = <<>> /\ answers = {} /\ paused = FALSE /\ server = "up" /\ edits = 0
  /\ pipelines = [p \in {Critique} |-> Definition]
  /\ request = [c \in Clients |-> Idle]

\* AdmitWork prefixes its keys in the column all admissions share.
Prefixed(key) == <<"work:", key>>
RunOf(key) == {r \in DOMAIN runs : runs[r].key = key}
Named(name) == {t \in DOMAIN tasks : tasks[t].name = name}
Titled(title) == {p \in DOMAIN pipelines : pipelines[p].title = title}

NewRun(key, source, t, digest, after, wanted) ==
  [key |-> key, source |-> source, task |-> t, digest |-> digest, after |-> after,
   prompt |-> tasks[t].prompt, work |-> "open", since |-> Len(runs) + 1, wanted |-> wanted]

-----------------------------------------------------------------------------
(* AdmitWork, step by step.                                                *)

Goes(c, step) == request' = [request EXCEPT ![c].step = step]
GoesWith(c, t) == request' = [request EXCEPT ![c] =
                    [step |-> "admit", of |-> @.of, known |-> @.known, task |-> t]]
Answer(c, r) ==
  /\ answers' = answers \cup {<<request[c].of.key, r>>}
  /\ request' = [request EXCEPT ![c] = Idle]
Refuse(c, code) ==
  /\ request' = [request EXCEPT ![c] = [step |-> "refused", of |-> @.of, known |-> @.known,
                                        code |-> code]]
  /\ UNCHANGED answers

Submit(c, s) ==
  /\ server = "up" /\ request[c].step \in {"idle", "refused"}
  /\ request' = [request EXCEPT ![c] = [step |-> "replay", of |-> s,
                                        known |-> RunOf(Prefixed(s.key)) # {}]]
  /\ UNCHANGED <<tasks, pipelines, runs, paused, answers, server, edits>>

\* Mutant: the pause is read before the replay.
PauseFirst(c) ==
  /\ request[c].step = "replay"
  /\ LET found == RunOf(Prefixed(request[c].of.key))
     IN \/ paused /\ Refuse(c, "factory_paused")
        \/ ~paused /\ \E r \in found : Answer(c, r)
        \/ ~paused /\ found = {} /\ Goes(c, "pause") /\ UNCHANGED answers
  /\ UNCHANGED <<tasks, pipelines, runs, paused, server, edits>>

\* admittedWork: whoever admitted the key, and whatever was submitted then.
Replay(c) ==
  /\ request[c].step = "replay"
  /\ LET found == RunOf(Prefixed(request[c].of.key))
     IN \/ \E r \in found : Answer(c, r)
        \/ found = {} /\ Goes(c, "pause") /\ UNCHANGED answers
  /\ UNCHANGED <<tasks, pipelines, runs, paused, server, edits>>

\* The advisory pause; the repository of a submission is a managed one.
ReadPause(c) ==
  /\ request[c].step = "pause"
  /\ \/ paused /\ Refuse(c, "factory_paused")
     \/ ~paused /\ Goes(c, "create") /\ UNCHANGED answers
  /\ UNCHANGED <<tasks, pipelines, runs, paused, server, edits>>

\* CreateTask counts before it inserts, and the insert finds the name taken.
CreateTask(c) ==
  LET s == request[c].of
  IN /\ request[c].step = "create"
     /\ \/ /\ Len(tasks) >= MaxTasks
           /\ Refuse(c, "task_limit_reached") /\ UNCHANGED tasks
        \/ /\ Len(tasks) < MaxTasks /\ s.pipeline \notin DOMAIN pipelines
           /\ Refuse(c, "pipeline_not_found") /\ UNCHANGED tasks
        \/ /\ Len(tasks) < MaxTasks /\ s.pipeline \in DOMAIN pipelines
           /\ Named(s.name) # {}
           /\ Goes(c, "adopt") /\ UNCHANGED <<tasks, answers>>
        \/ /\ Len(tasks) < MaxTasks /\ s.pipeline \in DOMAIN pipelines
           /\ Named(s.name) = {}
           /\ tasks' = Append(tasks, [name |-> s.name, prompt |-> s.prompt,
                                      pipeline |-> s.pipeline, archived |-> FALSE,
                                      by |-> s, edited |-> FALSE])
           /\ GoesWith(c, Len(tasks) + 1) /\ UNCHANGED answers
     /\ UNCHANGED <<pipelines, runs, paused, server, edits>>

\* Mutant: the name alone is taken for proof of identity.
AdoptByName(c) ==
  /\ request[c].step = "adopt"
  /\ \/ Named(request[c].of.name) = {} /\ Refuse(c, "task_name_conflict")
     \/ \E t \in Named(request[c].of.name) : GoesWith(c, t) /\ UNCHANGED answers
  /\ UNCHANGED <<tasks, pipelines, runs, paused, server, edits>>

\* adoptAdmittedTask: the prompt is compared, the Pipeline is not.
Adopt(c) ==
  LET s == request[c].of
  IN /\ request[c].step = "adopt"
     /\ \/ Named(s.name) = {} /\ Refuse(c, "task_name_conflict")
        \/ \E t \in Named(s.name) :
             \/ tasks[t].prompt # s.prompt /\ Refuse(c, "admission_name_collision")
             \/ tasks[t].prompt = s.prompt /\ GoesWith(c, t) /\ UNCHANGED answers
     /\ UNCHANGED <<tasks, pipelines, runs, paused, server, edits>>

\* admitTask, on the Task as it is by now.  The replay comes before the pause.
AdmitTask(c) ==
  LET s == request[c].of
      t == request[c].task
      known == RunOf(Prefixed(s.key))
  IN /\ request[c].step = "admit"
     /\ \/ \E r \in known :
             /\ \/ runs[r].task = t /\ runs[r].source = s.source /\ Answer(c, r)
                \/ (runs[r].task # t \/ runs[r].source # s.source)
                     /\ Refuse(c, "request_key_conflict")
             /\ UNCHANGED runs
        \/ /\ known = {} /\ paused
           /\ Refuse(c, "factory_paused") /\ UNCHANGED runs
        \/ /\ known = {} /\ ~paused /\ tasks[t].archived
           /\ Refuse(c, "task_archived") /\ UNCHANGED runs
        \/ /\ known = {} /\ ~paused /\ ~tasks[t].archived
           /\ runs' = Append(runs, NewRun(Prefixed(s.key), s.source, t, <<"task", t>>, 0, s))
           /\ Answer(c, Len(runs) + 1)
     /\ UNCHANGED <<tasks, pipelines, paused, server, edits>>

\* A busy database or a client that goes away, at any step: what was committed stays.
Fail(c) ==
  /\ request[c].step \notin {"idle", "refused"}
  /\ request' = [request EXCEPT ![c] = Idle]
  /\ UNCHANGED <<tasks, pipelines, runs, paused, answers, server, edits>>

-----------------------------------------------------------------------------
(* The operators.                                                          *)

ByHand == Cardinality({r \in DOMAIN runs : runs[r].wanted.key = "none"})
NoSubmission == [key |-> "none"]

\* RunTask of a key no Run has; a known one is only answered.  Its keys are not kept
\* out of AdmitWork's.
RunTask(key, t) ==
  /\ RunOf(key) = {} /\ ~paused /\ ~tasks[t].archived /\ ByHand < MaxRuns
  /\ runs' = Append(runs, NewRun(key, "manual", t, <<"task", t>>, 0, NoSubmission))
  /\ UNCHANGED <<tasks, pipelines, paused, request, answers, server, edits>>

Open(r) == runs[r].work = "open"
Followed(r) == \E q \in DOMAIN runs : runs[q].after = r
\* selectProcedurePredecessors: no open Work of the Procedure in the repository, and the
\* newest finished one nothing followed.
Finished(t) == {r \in DOMAIN runs : runs[r].task = t /\ ~Open(r) /\ ~Followed(r)}
Newest(set) == CHOOSE r \in set : \A q \in set : q <= r
\* Mutant: a rebuild does not ask for open Work.
RebuildAnyway(key, t, rebuild) ==
  /\ RunOf(key) = {} /\ ~paused /\ ~tasks[t].archived /\ ByHand < MaxRuns
  /\ rebuild => Finished(t) # {}
  /\ runs' = Append(runs, NewRun(key, "manual", t, <<"procedure", tasks[t].name, rebuild>>,
                                 IF rebuild THEN Newest(Finished(t)) ELSE 0, NoSubmission))
  /\ UNCHANGED <<tasks, pipelines, paused, request, answers, server, edits>>

\* AdmitProcedureRun of a key no Run has.
ProcedureRun(key, t, rebuild) ==
  /\ RunOf(key) = {} /\ ~paused /\ ~tasks[t].archived /\ ByHand < MaxRuns
  /\ rebuild => /\ \A r \in DOMAIN runs : runs[r].task = t => ~Open(r)
                /\ Finished(t) # {}
  /\ runs' = Append(runs, NewRun(key, "manual", t, <<"procedure", tasks[t].name, rebuild>>,
                                 IF rebuild THEN Newest(Finished(t)) ELSE 0, NoSubmission))
  /\ UNCHANGED <<tasks, pipelines, paused, request, answers, server, edits>>

\* The only Work of the Run ends; failed stands for cancelled too.
Finish(r) ==
  /\ Open(r) /\ \E end \in {"done", "failed"} : runs' = [runs EXCEPT ![r].work = end]
  /\ UNCHANGED <<tasks, pipelines, paused, request, answers, server, edits>>

\* The Work a line of rebuilds and replacements began with.
Root[r \in DOMAIN runs] == IF runs[r].after = 0 THEN r ELSE Root[runs[r].after]
LineOpen(r) == \E q \in DOMAIN runs \ {r} : Root[q] = Root[r] /\ Open(q)
\* Mutant: only open Work of its line keeps a Work from it.
UnguardedAgain(r) == ~LineOpen(r)
\* validateWorkRetryGuards of Work whose target is a repository.
MayGoAgain(r) == ~Followed(r) /\ ~LineOpen(r)

\* RetrySession opens the Work again, whatever other Work of the Procedure is open.
Retry(r) ==
  /\ runs[r].work = "failed" /\ ~paused /\ MayGoAgain(r)
  /\ runs' = [runs EXCEPT ![r].work = "open", ![r].since = Len(runs)]
  /\ UNCHANGED <<tasks, pipelines, paused, request, answers, server, edits>>

\* ReplaceWork of a key no Run has: a new Run with the prompt of the old one.
Replace(key, r) ==
  LET t == runs[r].task
      new == NewRun(key, "manual", t, <<"replace", r>>, r, NoSubmission)
  IN /\ RunOf(key) = {} /\ ~paused /\ ByHand < MaxRuns
     /\ ~Open(r) /\ MayGoAgain(r) /\ ~tasks[t].archived
     /\ runs' = Append(runs, [new EXCEPT !.prompt = runs[r].prompt])
     /\ UNCHANGED <<tasks, pipelines, paused, request, answers, server, edits>>

Edit == edits < MaxEdits /\ edits' = edits + 1

UpdateTask(t, name, prompt, pipeline) ==
  /\ Named(name) \subseteq {t} /\ pipeline \in DOMAIN pipelines
  /\ tasks' = [tasks EXCEPT ![t].name = name, ![t].prompt = prompt,
                            ![t].pipeline = pipeline, ![t].edited = TRUE]
  /\ Edit /\ UNCHANGED <<pipelines, runs, paused, request, answers, server>>

SetTaskArchived(t) ==
  /\ tasks' = [tasks EXCEPT ![t].archived = ~@]
  /\ Edit /\ UNCHANGED <<pipelines, runs, paused, request, answers, server>>

SetFactoryPause ==
  /\ paused' = ~paused
  /\ Edit /\ UNCHANGED <<tasks, pipelines, runs, request, answers, server>>

CreatePipeline(id, title) ==
  /\ id \notin DOMAIN pipelines /\ Titled(title) = {}
  /\ Cardinality(DOMAIN pipelines) < MaxPipelines
  /\ pipelines' = [p \in DOMAIN pipelines \cup {id} |->
                    IF p = id THEN [title |-> title, edited |-> TRUE] ELSE pipelines[p]]
  /\ Edit /\ UNCHANGED <<tasks, runs, paused, request, answers, server>>

\* A built-in one may be renamed too.
UpdatePipeline(id, title) ==
  /\ Titled(title) \subseteq {id}
  /\ pipelines' = [pipelines EXCEPT ![id] = [title |-> title, edited |-> TRUE]]
  /\ Edit /\ UNCHANGED <<tasks, runs, paused, request, answers, server>>

\* Mutant: deleted under the Tasks that use it.
DeleteUsed(id) ==
  /\ id # Critique
  /\ pipelines' = Restrict(pipelines, DOMAIN pipelines \ {id})
  /\ Edit /\ UNCHANGED <<tasks, runs, paused, request, answers, server>>
DeletePipeline(id) ==
  /\ id # Critique /\ \A t \in DOMAIN tasks : tasks[t].pipeline # id
  /\ pipelines' = Restrict(pipelines, DOMAIN pipelines \ {id})
  /\ Edit /\ UNCHANGED <<tasks, runs, paused, request, answers, server>>

\* The server stops, requests with it, and starts: ensureCritiquePipeline writes the
\* built-in one when it differs, which fails when another one has its title.
Restart ==
  /\ request' = [c \in Clients |-> Idle]
  /\ IF pipelines[Critique] = Definition \/ Titled(Critique) \subseteq {Critique}
     THEN /\ server' = "up" /\ pipelines' = [pipelines EXCEPT ![Critique] = Definition]
     ELSE /\ server' = "failed" /\ UNCHANGED pipelines
  /\ UNCHANGED <<tasks, runs, paused, answers, edits>>

Steps(c) ==
  \/ \E s \in Submissions : Submit(c, s)
  \/ Replay(c) \/ ReadPause(c) \/ CreateTask(c) \/ Adopt(c) \/ AdmitTask(c) \/ Fail(c)
Operations ==
  \/ \E t \in DOMAIN tasks :
       \/ \E key \in TaskKeys : RunTask(key, t)
       \/ \E key \in ProcedureKeys, rebuild \in BOOLEAN : ProcedureRun(key, t, rebuild)
  \/ \E r \in DOMAIN runs :
       Finish(r) \/ Retry(r) \/ \E key \in ProcedureKeys : Replace(key, r)
  \/ \E t \in DOMAIN tasks :
       \/ SetTaskArchived(t)
       \/ \E name \in Names, prompt \in Prompts, pipeline \in DOMAIN pipelines :
            UpdateTask(t, name, prompt, pipeline)
  \/ SetFactoryPause
  \/ \E id \in Ids, title \in Titles : CreatePipeline(id, title)
  \/ \E id \in DOMAIN pipelines :
       DeletePipeline(id) \/ \E title \in Titles : UpdatePipeline(id, title)
Next == (\E c \in Clients : Steps(c)) \/ (server = "up" /\ Operations) \/ Restart

Spec == Init /\ [][Next]_vars

-----------------------------------------------------------------------------
(* Properties.                                                             *)

TypeOK ==
  /\ \A t \in DOMAIN tasks : tasks[t].name \in Names /\ tasks[t].prompt \in Prompts
  /\ DOMAIN pipelines \subseteq Ids \cup {Critique}
  /\ \A p \in DOMAIN pipelines : pipelines[p].title \in Titles
  /\ \A r \in DOMAIN runs : runs[r].task \in DOMAIN tasks /\ runs[r].after \in 0 .. r - 1
  /\ \A c \in Clients : request[c].step \in
       {"idle", "replay", "pause", "create", "adopt", "admit", "refused"}
  /\ \A a \in answers : a[2] \in DOMAIN runs

\* Duplicates, retries after a failure between the Task and its Run, and restarts
\* admit one Run per request key, every answer of the key names it, and it runs the
\* prompt submitted with that key unless an operator edited the Task or took the key
\* (AdmitWork, adoptAdmittedTask, admitTask).
OneRunPerKey ==
  /\ \A r, q \in DOMAIN runs : runs[r].key = runs[q].key => r = q
  /\ \A a \in answers : runs[a[2]].key = Prefixed(a[1])
  /\ \A r \in DOMAIN runs : runs[r].wanted # NoSubmission =>
       runs[r].prompt = runs[r].wanted.prompt \/ tasks[runs[r].task].edited

\* A submission whose key was admitted before it arrived is never refused, and the
\* others only for what another request or an operator did: the name holds another
\* submission's Task or an edited one, or the key's Run is not this submission's
\* (AdmitWork's order: replay, pause, Task, Run).
RefusedForCause ==
  \A c \in Clients : request[c].step = "refused" =>
    LET s == request[c].of
        code == request[c].code
        edited == \E t \in DOMAIN tasks : tasks[t].edited
    IN /\ ~request[c].known
       /\ code = "task_name_conflict" => edited
       /\ code = "admission_name_collision" =>
            edited \/ \E t \in DOMAIN tasks : /\ tasks[t].by # s /\ tasks[t].by.name = s.name
       /\ code = "request_key_conflict" =>
            \E r \in RunOf(Prefixed(s.key)) :
              \/ runs[r].wanted = NoSubmission \/ runs[r].wanted.source # s.source
              \/ runs[r].wanted.name # s.name \/ edited

\* A Task's Pipeline exists whatever is edited and deleted around it, so that admitTask
\* can freeze it (CreateTask, UpdateTask, DeletePipeline).
PipelinesExist == \A t \in DOMAIN tasks : tasks[t].pipeline \in DOMAIN pipelines

\* However often the Work of a Procedure is run, retried, replaced and rebuilt: no two
\* follow the same one, what was followed never opens again, and older Work is open
\* beside a rebuild only because it was retried since (selectProcedurePredecessors,
\* validateWorkRetryGuards).
OneLine ==
  \A r \in DOMAIN runs : runs[r].after # 0 =>
    /\ ~Open(runs[r].after)
    /\ \A q \in DOMAIN runs : runs[q].after = runs[r].after => q = r
    /\ runs[r].digest[1] = "procedure" =>
         \A q \in 1 .. r - 1 : runs[q].task = runs[r].task /\ Open(q) => runs[q].since >= r

\* "installs the built-in Critique Pipeline, or repairs it, on every start"
\* (critique.go:85): not when an operator's Pipeline has its title.
CritiqueRepaired == server = "up"
=============================================================================
