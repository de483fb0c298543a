----------------------------- MODULE SimulationIPC -----------------------------
(***************************************************************************)
(* The file protocol between the SimCore v2 backend and a simulation       *)
(* process (simcore-v2/backend).                                           *)
(*                                                                         *)
(* A request thread of the backend writes a command file into the          *)
(* simulation's directory and polls for the response file of the same id;  *)
(* the simulation, once its rounds are done, polls the commands, oldest    *)
(* first, and answers them one at a time.  A file is torn between the open *)
(* that empties it and the close that fills it; every access of a file is  *)
(* a step.  Either process may be killed at any moment.                    *)
(***************************************************************************)
EXTENDS Naturals, Sequences, SequencesExt

CONSTANTS
    Requests,       (* calls of send_command, each under an id of its own *)
    Closing,        (* those that send CLOSE_ENV, the others send an interview *)
    Long,           (* those whose command and response outgrow a write buffer: *)
                    (* a torn file of theirs may end inside a character         *)
    Runs,           (* simulation processes over one directory, by order of start *)
    NoOne,          (* None, for a request or a run *)
    MaxMishaps      (* bound: writes that raise, and times the backend loses a  *)
                    (* run's handle but for a restart after its rounds          *)

ASSUME IPCAssumption ==
    /\ Closing \subseteq Requests /\ Long \subseteq Requests
    /\ Runs \subseteq Nat /\ NoOne \notin Requests \cup Runs
    /\ MaxMishaps \in Nat

VARIABLES
    req,        (* where each request thread is in its call *)
    commands,   (* the files of ipc_commands, by modification time *)
    torn,       (* those that are not written out *)
    response,   (* the file of ipc_responses for each request *)
    alive,      (* env_status.json is there, readable and says alive *)
    at,         (* where each run is *)
    todo,       (* per run: the files of its last listing it has not tried *)
    hand,       (* per run: the command it works on; stays when the run is cut short *)
    signalled,  (* runs whose _shutdown_event is set *)
    known,      (* the run the backend holds a handle of *)
    taken,      (* history, per run: commands it took up *)
    overlapped, (* history: runs that were up together with another one *)
    mishaps

clientVars == <<req, torn>>
runVars    == <<at, todo, hand, signalled, known, taken, overlapped>>
vars == <<clientVars, commands, response, alive, runVars, mishaps>>

Ended  == {"refused", "done", "gaveup", "dead"}
Phases == {"new", "checked", "writing", "waiting", "received", "cleaning"} \cup Ended
Polling == {"listen", "listed", "scan"}
Places == {"off", "rounds", "opening", "work", "answering", "answered", "closing", "gone"}
          \cup Polling
Up(s) == at[s] \notin {"off", "gone"}
InLoop(s) == at[s] \in Polling \cup {"work", "answering", "answered"}

Files == ToSet(commands)

Init ==
    /\ req = [r \in Requests |-> "new"] /\ commands = <<>> /\ torn = {}
    /\ response = [r \in Requests |-> "none"] /\ alive = FALSE
    /\ at = [s \in Runs |-> "off"] /\ todo = [s \in Runs |-> <<>>]
    /\ hand = [s \in Runs |-> NoOne] /\ signalled = {} /\ known = NoOne
    /\ taken = [s \in Runs |-> {}] /\ overlapped = {} /\ mishaps = 0

Become(r, phase) == req' = [req EXCEPT ![r] = phase]
Goto(s, place)   == at' = [at EXCEPT ![s] = place]

(* Leaving the command loop: the status file is emptied, to be rewritten,  *)
(* and the event is not looked at any more.                                *)
StopListening(s) == Goto(s, "closing") /\ alive' = FALSE /\ signalled' = signalled \ {s}

--------------------------------------------------------------------------------
(* Mutants: each is the definition it is named after with a plausible bug  *)
(* in it.  They are not part of the specification.                         *)

(* The command file of a request that timed out stays.                     *)
GiveUpKeepsFile(r) ==
    /\ req[r] = "waiting" /\ Become(r, "gaveup")
    /\ UNCHANGED <<torn, commands, response, alive, runVars, mishaps>>

(* The served command is left to its client to remove.                     *)
RemoveServedNot(s) ==
    /\ at[s] = "answered" /\ hand' = [hand EXCEPT ![s] = NoOne]
    /\ IF hand[s] \in Closing THEN StopListening(s) ELSE Goto(s, "listen") /\ UNCHANGED <<alive, signalled>>
    /\ UNCHANGED <<clientVars, commands, response, todo, known, taken, overlapped,
                   mishaps>>

(* The loop goes on after a close command.                                 *)
RemoveServedGoesOn(s) ==
    /\ at[s] = "answered" /\ hand' = [hand EXCEPT ![s] = NoOne]
    /\ commands' = RemoveFirst(commands, hand[s]) /\ Goto(s, "listen")
    /\ UNCHANGED <<clientVars, response, alive, todo, signalled, known, taken,
                   overlapped, mishaps>>

(* An unreadable file ends the scan.                                       *)
SkipEndsScan(s) ==
    /\ at[s] = "scan" /\ (todo[s] # <<>> => Head(todo[s]) \in torn \/ Head(todo[s]) \notin Files)
    /\ todo' = [todo EXCEPT ![s] = <<>>] /\ Goto(s, "listen")
    /\ UNCHANGED <<clientVars, commands, response, alive, hand, signalled, known,
                   taken, overlapped, mishaps>>

(* The status file is left as it is when the loop begins.                  *)
AnnounceNotAlive(s) ==
    /\ at[s] = "opening" /\ Goto(s, "listen") /\ UNCHANGED alive
    /\ UNCHANGED <<clientVars, commands, response, todo, hand, signalled, known,
                   taken, overlapped, mishaps>>

(* The deadline runs while the command is still being written.             *)
GiveUpEarly(r) ==
    /\ req[r] \in {"writing", "waiting"} /\ Become(r, "gaveup") /\ commands' = RemoveFirst(commands, r)
    /\ UNCHANGED <<torn, response, alive, runVars, mishaps>>

--------------------------------------------------------------------------------
(* A request: check_env_alive, then send_command.                          *)

Check(r) ==
    /\ req[r] = "new" /\ Become(r, IF alive THEN "checked" ELSE "refused")
    /\ UNCHANGED <<torn, commands, response, alive, runVars, mishaps>>

OpenCommand(r) ==
    /\ req[r] = "checked" /\ Become(r, "writing")
    /\ commands' = Append(commands, r)
    /\ torn' = torn \cup {r}
    /\ UNCHANGED <<response, alive, runVars, mishaps>>

WriteCommand(r) ==
    /\ req[r] = "writing" /\ Become(r, "waiting")
    /\ commands' = Append(RemoveFirst(commands, r), r) /\ torn' = torn \ {r}
    /\ UNCHANGED <<response, alive, runVars, mishaps>>

(* The write raises out of send_command and the torn file stays.           *)
WriteFails(r) ==
    /\ req[r] = "writing" /\ mishaps < MaxMishaps /\ mishaps' = mishaps + 1 /\ Become(r, "dead")
    /\ UNCHANGED <<torn, commands, response, alive, runVars>>

(* A response that does not parse is tried again, ...                      *)
Receive(r) ==
    /\ req[r] = "waiting" /\ response[r] = "whole" /\ Become(r, "received")
    /\ UNCHANGED <<torn, commands, response, alive, runVars, mishaps>>

(* ... but one that does not even decode raises out of send_command.       *)
DecodeResponseFails(r) ==
    /\ req[r] = "waiting" /\ response[r] = "torn" /\ r \in Long /\ Become(r, "dead")
    /\ UNCHANGED <<torn, commands, response, alive, runVars, mishaps>>

(* Both files are removed in one try: where the run removed the command    *)
(* first, the response stays.                                              *)
RemoveCommand(r) ==
    /\ req[r] = "received" /\ Become(r, IF r \in Files THEN "cleaning" ELSE "done")
    /\ commands' = RemoveFirst(commands, r)
    /\ UNCHANGED <<torn, response, alive, runVars, mishaps>>

RemoveResponse(r) ==
    /\ req[r] = "cleaning" /\ Become(r, "done")
    /\ response' = [response EXCEPT ![r] = "none"]
    /\ UNCHANGED <<torn, commands, alive, runVars, mishaps>>

(* The deadline passes, whatever has been answered meanwhile.              *)
GiveUp(r) ==
    /\ req[r] = "waiting" /\ Become(r, "gaveup") /\ commands' = RemoveFirst(commands, r)
    /\ UNCHANGED <<torn, response, alive, runVars, mishaps>>

--------------------------------------------------------------------------------
(* A run, started and stopped by the backend.                              *)

(* A forced start stops the known run first and deletes the status file,  *)
(* another leaves what it says.  The runner refuses a start only while the *)
(* known run is in its rounds, for their end already counts as COMPLETED:  *)
(* a run that waits for commands goes on beside the new one.  In the       *)
(* rounds two starts may still pass the same check, and the later handle   *)
(* stays.                                                                  *)
Start(s) ==
    /\ at[s] = "off" /\ \A x \in Runs : x < s => at[x] # "off"
    /\ IF known # NoOne /\ at[known] = "rounds"
       THEN mishaps < MaxMishaps /\ mishaps' = mishaps + 1
       ELSE UNCHANGED mishaps
    /\ Goto(s, "rounds") /\ known' = s /\ alive' \in {alive, FALSE}
    /\ LET others == {x \in Runs : Up(x)} IN
       overlapped' = IF others = {} THEN overlapped ELSE overlapped \cup others \cup {s}
    /\ UNCHANGED <<clientVars, commands, response, todo, hand, signalled, taken>>

(* The monitor of an earlier run winds up and drops the present run's      *)
(* handle, which is kept under the same simulation id.                     *)
MonitorForgets(s) ==
    /\ at[s] = "gone" /\ known # NoOne /\ Up(known) /\ mishaps < MaxMishaps
    /\ known' = NoOne /\ mishaps' = mishaps + 1
    /\ UNCHANGED <<clientVars, commands, response, alive, at, todo, hand,
                   signalled, taken, overlapped>>

(* SIGTERM lets the run come to the end of its present step.               *)
Signal(s) ==
    /\ known = s /\ Up(s) /\ at[s] # "closing" /\ s \notin signalled /\ signalled' = signalled \cup {s}
    /\ UNCHANGED <<clientVars, commands, response, alive, at, todo, hand, known,
                   taken, overlapped, mishaps>>

FinishRounds(s) ==
    /\ at[s] = "rounds" /\ Goto(s, "opening") /\ alive' = FALSE
    /\ UNCHANGED <<clientVars, commands, response, todo, hand, signalled, known,
                   taken, overlapped, mishaps>>

AnnounceAlive(s) ==
    /\ at[s] = "opening" /\ Goto(s, "listen") /\ alive' = TRUE
    /\ UNCHANGED <<clientVars, commands, response, todo, hand, signalled, known,
                   taken, overlapped, mishaps>>

Leave(s) ==
    /\ at[s] = "listen" /\ s \in signalled /\ StopListening(s)
    /\ UNCHANGED <<clientVars, commands, response, todo, hand, known, taken,
                   overlapped, mishaps>>

(* poll_command: list the files, look up the time of each, ...             *)
ListCommands(s) ==
    /\ at[s] = "listen" /\ s \notin signalled /\ commands # <<>>
    /\ todo' = [todo EXCEPT ![s] = commands] /\ Goto(s, "listed")
    /\ UNCHANGED <<clientVars, commands, response, alive, hand, signalled, known,
                   taken, overlapped, mishaps>>

Older(r, q) == \E i, j \in DOMAIN commands : i < j /\ commands[i] = r /\ commands[j] = q

SortByTime(s) ==
    /\ at[s] = "listed" /\ ToSet(todo[s]) \subseteq Files
    /\ \E order \in [DOMAIN todo[s] -> ToSet(todo[s])] :
         /\ \A i, j \in DOMAIN order : i < j => Older(order[i], order[j])
         /\ todo' = [todo EXCEPT ![s] = order]
    /\ Goto(s, "scan")
    /\ UNCHANGED <<clientVars, commands, response, alive, hand, signalled, known,
                   taken, overlapped, mishaps>>

(* A listed file is gone: getmtime raises and the exception ends the loop. *)
TimeFails(s) ==
    /\ at[s] = "listed" /\ ~(ToSet(todo[s]) \subseteq Files) /\ StopListening(s)
    /\ todo' = [todo EXCEPT ![s] = <<>>]
    /\ UNCHANGED <<clientVars, commands, response, hand, known, taken, overlapped,
                   mishaps>>

(* ... and take the first one that can be read.                            *)
Take(s) ==
    /\ at[s] = "scan" /\ todo[s] # <<>>
    /\ LET r == Head(todo[s]) IN
       /\ r \in Files \ torn
       /\ hand' = [hand EXCEPT ![s] = r] /\ taken' = [taken EXCEPT ![s] = @ \cup {r}]
    /\ todo' = [todo EXCEPT ![s] = <<>>] /\ Goto(s, "work")
    /\ UNCHANGED <<clientVars, commands, response, alive, signalled, known,
                   overlapped, mishaps>>

Skip(s) ==
    /\ at[s] = "scan" /\ (todo[s] # <<>> => Head(todo[s]) \in torn \/ Head(todo[s]) \notin Files)
    /\ IF todo[s] = <<>> THEN Goto(s, "listen") /\ UNCHANGED todo
       ELSE todo' = [todo EXCEPT ![s] = Tail(@)] /\ UNCHANGED at
    /\ UNCHANGED <<clientVars, commands, response, alive, hand, signalled, known,
                   taken, overlapped, mishaps>>

(* A file that does not even decode ends the loop.                         *)
DecodeFails(s) ==
    /\ at[s] = "scan" /\ todo[s] # <<>> /\ Head(todo[s]) \in torn \cap Long
    /\ StopListening(s) /\ todo' = [todo EXCEPT ![s] = <<>>]
    /\ UNCHANGED <<clientVars, commands, response, hand, known, taken, overlapped,
                   mishaps>>

(* The handler is done, and send_response opens the response file, ...     *)
OpenResponse(s) ==
    /\ at[s] = "work" /\ Goto(s, "answering")
    /\ response' = [response EXCEPT ![hand[s]] = "torn"]
    /\ UNCHANGED <<clientVars, commands, alive, todo, hand, signalled, known,
                   taken, overlapped, mishaps>>

(* ... fills it, ...                                                       *)
Answer(s) ==
    /\ at[s] = "answering" /\ Goto(s, "answered")
    /\ response' = [response EXCEPT ![hand[s]] = "whole"]
    /\ UNCHANGED <<clientVars, commands, alive, todo, hand, signalled, known,
                   taken, overlapped, mishaps>>

(* ... and removes the command.  A close command ends the loop.            *)
RemoveServed(s) ==
    /\ at[s] = "answered" /\ hand' = [hand EXCEPT ![s] = NoOne]
    /\ commands' = RemoveFirst(commands, hand[s])
    /\ IF hand[s] \in Closing THEN StopListening(s) ELSE Goto(s, "listen") /\ UNCHANGED <<alive, signalled>>
    /\ UNCHANGED <<clientVars, response, todo, known, taken, overlapped, mishaps>>

(* send_response raises: the exception ends the loop, the command stays.   *)
ResponseFails(s) ==
    /\ at[s] \in {"work", "answering"} /\ mishaps < MaxMishaps /\ mishaps' = mishaps + 1
    /\ StopListening(s)
    /\ UNCHANGED <<clientVars, commands, response, todo, hand, known, taken,
                   overlapped>>

AnnounceStopped(s) ==
    /\ at[s] = "closing" /\ Goto(s, "gone") /\ alive' = FALSE
    /\ UNCHANGED <<clientVars, commands, response, todo, hand, signalled, known,
                   taken, overlapped, mishaps>>

--------------------------------------------------------------------------------
(* The run is killed (SIGKILL after an unheeded SIGTERM, or a crash).      *)
Killed(s) ==
    /\ Up(s) /\ Goto(s, "gone") /\ todo' = [todo EXCEPT ![s] = <<>>]
    /\ signalled' = signalled \ {s}
    /\ UNCHANGED <<clientVars, commands, response, alive, hand, known, taken,
                   overlapped, mishaps>>

(* The backend dies with its request threads; a run lives on in a session  *)
(* of its own, and the next backend holds no handle of it.                 *)
BackendDies ==
    /\ mishaps < MaxMishaps /\ mishaps' = mishaps + 1 /\ known' = NoOne
    /\ req' = [r \in Requests |-> IF req[r] \in Ended \cup {"new"} THEN req[r] ELSE "dead"]
    /\ UNCHANGED <<torn, commands, response, alive, at, todo, hand, signalled,
                   taken, overlapped>>

Finished == /\ \A r \in Requests : req[r] \in Ended
            /\ \A s \in Runs : at[s] = "gone"
            /\ UNCHANGED vars

Serve(s) == \/ Leave(s) \/ ListCommands(s) \/ SortByTime(s) \/ TimeFails(s) \/ Take(s) \/ Skip(s)
            \/ DecodeFails(s) \/ OpenResponse(s) \/ Answer(s) \/ RemoveServed(s) \/ AnnounceStopped(s)

Next ==
    \/ \E r \in Requests :
         \/ Check(r) \/ OpenCommand(r) \/ WriteCommand(r) \/ WriteFails(r)
         \/ Receive(r) \/ DecodeResponseFails(r) \/ RemoveCommand(r) \/ RemoveResponse(r) \/ GiveUp(r)
    \/ \E s \in Runs :
         \/ Start(s) \/ MonitorForgets(s) \/ Signal(s) \/ FinishRounds(s) \/ AnnounceAlive(s)
         \/ Serve(s) \/ ResponseFails(s) \/ Killed(s)
    \/ BackendDies \/ Finished

Spec == Init /\ [][Next]_vars

(* An interview ends (the handlers catch what it raises), the loop polls   *)
(* twice a second and so does the client.  No one else need ever act.      *)
FairSpec == /\ Spec
            /\ \A s \in Runs : WF_vars(Serve(s))
            /\ \A r \in Requests : WF_vars(Receive(r))

--------------------------------------------------------------------------------
(* Properties.                                                             *)

TypeOK ==
    /\ req \in [Requests -> Phases] /\ commands \in Seq(Requests) /\ IsInjective(commands)
    /\ torn \subseteq Files /\ response \in [Requests -> {"none", "torn", "whole"}]
    /\ alive \in BOOLEAN
    /\ at \in [Runs -> Places] /\ todo \in [Runs -> Seq(Requests)]
    /\ hand \in [Runs -> Requests \cup {NoOne}] /\ signalled \subseteq Runs
    /\ known \in Runs \cup {NoOne} /\ taken \in [Runs -> SUBSET Requests]
    /\ overlapped \subseteq Runs
    /\ mishaps \in 0 .. MaxMishaps

(* A command that a run took up is there to be taken again only while that *)
(* run is still on it or was cut short on it: an interview is not asked    *)
(* twice because a response, a removal or a client's clean-up crossed.     *)
ServedOnce == \A s \in Runs : \A r \in taken[s] : hand[s] # r => r \notin Files

(* Nobody is asked on behalf of a client that has its answer or has given  *)
(* up ("清理命令文件", simulation_ipc.py:181): the file is gone by then.     *)
ServedWhileWanted ==
    [][\A s \in Runs : hand'[s] \notin {hand[s], NoOne} => req[hand'[s]] \notin {"done", "gaveup"}]_vars

(* check_env_alive: a run in its command loop is alive in the status file, *)
(* whichever runs were there before it and however they ended, unless it   *)
(* was up at the same time as another run.                                 *)
ListeningIsAdvertised == \A s \in Runs : InLoop(s) /\ s \notin overlapped => alive

(* A command whose client keeps waiting is answered as long as the run     *)
(* stays in its loop, whatever unreadable files lie in front of it (two    *)
(* runs at once may write one response).                                   *)
EventuallyServed ==
    \A r \in Requests :
        (req[r] = "waiting" /\ \E s \in Runs : InLoop(s))
            ~> (req[r] # "waiting" \/ (\A s \in Runs : ~InLoop(s)) \/ overlapped # {})

(* A run that takes up a close command ends.                               *)
CloseEnds == \A r \in Closing, s \in Runs : (hand[s] = r) ~> (at[s] = "gone")

(* "进入等待命令模式 - 环境保持运行" (waiting for commands, the environment      *)
(* keeps running, run_parallel_simulation.py:1599): a run that polls leaves *)
(* its loop only when it is told to.                                       *)
OnlyStopsWhenTold ==
    [][\A s \in Runs : at[s] \in Polling /\ at'[s] = "closing" => s \in signalled]_vars
================================================================================
