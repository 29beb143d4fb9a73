------------------------------ MODULE GuestAgent ------------------------------
(***************************************************************************)
(* The guest agent's clients: qga's socketClient over the one virtio-      *)
(* serial channel, dialling with synchronization and a probe, and the jobs *)
(* that use it: guest files at startup, write-back to the host, guest-exec *)
(* and guest-shutdown.  The channel outlives connections: commands sent by *)
(* a client that gave up are still carried out and answered, and unread    *)
(* answers wait for the next client.  virtle may die at any time.          *)
(***************************************************************************)
EXTENDS Naturals, Sequences

CONSTANTS
  MaxConns,    \* bound: connections in one behaviour
  Chunks       \* pieces in which a file is read back (DefaultFileReadChunkSize)

ASSUME GuestAgentAssumption == MaxConns \in Nat /\ Chunks \in Nat \ {0}

Jobs == {"provision", "writeBack", "exec", "shutdown", "shutdownExec"}

VARIABLES
  \* the client side
  job,          \* the job under way, or "none"
  pc,           \* "idle", "dial", "sync", "probe", "run", "decide", "closing",
                \* "host" or "ended"
  step,         \* commands of the job's program that are done
  conn,         \* connections made so far; the last one is the current one
  waiting,      \* the command whose answer is awaited, or "none"
  data,         \* what a read or a host file write has so far
  result,       \* how the last job ended: "none", "ok" or "failed"
  provisioned,  \* writeBackOnExit: the guest files are written, or were restored
  answers,      \* whose answers this connection took: "own", "stale"
  \* the channel and the agent
  inbox,        \* commands the agent has not seen
  stream,       \* answers nobody has read
  exists, guestFile, readPos,
  \* the host
  overwrite,    \* the file's manifest entry
  hostFile, temp,
  \* history
  skippedEmpty  \* a launch kept a file that an earlier provisioning left empty

client == <<job, pc, step, conn, waiting, data, result, provisioned, answers>>
channel == <<inbox, stream>>
guest == <<exists, guestFile, readPos>>
host == <<overwrite, hostFile, temp, skippedEmpty>>
vars == <<client, channel, guest, host>>

\* A file of some version, in the pieces in which it is read.
File(version) == [i \in 1 .. Chunks |-> [of |-> version, piece |-> i]]

Init ==
  /\ job = "none" /\ pc = "idle" /\ step = 0 /\ conn = 0 /\ waiting = "none"
  /\ data = <<>> /\ result = "none" /\ provisioned = FALSE /\ answers = {}
  /\ inbox = <<>> /\ stream = <<>>
  /\ exists = FALSE /\ guestFile = <<>> /\ readPos = 0
  /\ overwrite \in BOOLEAN /\ hostFile = File("host") /\ temp = <<>>
  /\ skippedEmpty = FALSE

\* The round trips of each job after the probe.  A guest command is an exec
\* followed by status polls; provisioning tests for the path, installs its
\* directory, writes it and sets its mode.  overwrite skips the test.
Program(j) ==
  CASE j = "provision" -> <<"exec", "status", "exec", "status",
                            "open", "write", "close", "exec", "status">>
    [] j = "writeBack" -> <<"openRead", "read", "close">>
    [] j \in {"exec", "shutdownExec"} -> <<"exec", "status">>
    [] j = "shutdown" -> <<"shutdown">>

-----------------------------------------------------------------------------
(* The channel *)

Send(c, cmd) ==
  /\ waiting' = cmd
  /\ inbox' = Append(inbox, [conn |-> c, cmd |-> cmd])

\* The end of a connection: of the unread answers, those that had reached its
\* buffer are lost with it, the others stay.
Disconnect(unread) ==
  /\ stream' \in {SubSeq(unread, k, Len(unread)) : k \in 1 .. Len(unread) + 1}
  /\ waiting' = "none" /\ answers' = {}
  /\ UNCHANGED <<conn, inbox>>

\* The end of a job.  A launch whose files cannot be written fails.
Finish(outcome, unread) ==
  /\ job' = "none" /\ step' = 0 /\ data' = <<>>
  /\ pc' = IF job = "provision" /\ outcome = "failed" THEN "ended" ELSE "idle"
  /\ result' = outcome
  /\ provisioned' = (provisioned \/ (job = "provision" /\ outcome = "ok"))
  /\ Disconnect(unread)

\* The agent carries out the oldest command and answers it.
AgentAnswers ==
  /\ inbox # <<>>
  /\ LET c == Head(inbox) IN
     /\ stream' = Append(stream, [conn |-> c.conn, cmd |-> c.cmd,
                                  data |-> IF c.cmd = "read" /\ readPos < Len(guestFile)
                                           THEN <<guestFile[readPos + 1]>> ELSE <<>>,
                                  eof |-> readPos + 1 >= Len(guestFile)])
     /\ exists' = (exists \/ c.cmd = "open")
     /\ guestFile' = CASE c.cmd = "open" -> <<>>
                       [] c.cmd = "write" -> File("host")
                       [] OTHER -> guestFile
     /\ readPos' = CASE c.cmd = "openRead" -> 0
                     [] c.cmd = "read" /\ readPos < Len(guestFile) -> readPos + 1
                     [] OTHER -> readPos
  /\ inbox' = Tail(inbox)
  /\ UNCHANGED <<client, host>>

\* A process in the guest replaces the file.
GuestEdits ==
  /\ guestFile = File("host")
  /\ guestFile' = File("edit")
  /\ UNCHANGED <<client, channel, exists, readPos, host>>

-----------------------------------------------------------------------------
(* Dialling *)

\* A fresh launch writes its files once, and only then is there anything to write
\* back; a resumed one (Resume) does not write them.
Begin(j) ==
  /\ pc = "idle" /\ conn < MaxConns
  /\ j = "provision" => ~provisioned
  /\ j = "writeBack" => provisioned
  /\ job' = j /\ pc' = "dial" /\ result' = "none"
  /\ step' = IF j = "provision" /\ overwrite THEN 2 ELSE 0
  /\ UNCHANGED <<conn, waiting, data, provisioned, answers, channel, guest, host>>

\* Dial connects and sends guest-sync-delimited.
Dial ==
  /\ pc = "dial" /\ conn < MaxConns
  /\ conn' = conn + 1
  /\ pc' = "sync"
  /\ Send(conn', "sync")
  /\ UNCHANGED <<job, step, data, result, provisioned, answers, stream, guest, host>>

\* The socket is not there, a watched process exited or the context ended.
DialFails ==
  /\ pc = "dial"
  /\ Finish("failed", stream)
  /\ UNCHANGED <<guest, host>>

\* synchronize drops answers up to the first that starts with 0xff and returns
\* the identifier, which is the same for every connection.
Synchronize ==
  /\ pc = "sync" /\ stream # <<>>
  /\ stream' = Tail(stream)
  /\ IF Head(stream).cmd = "sync"
     THEN pc' = "probe" /\ Send(conn, "ping")
     ELSE UNCHANGED <<pc, waiting, inbox>>
  /\ UNCHANGED <<job, step, conn, data, result, provisioned, answers, guest, host>>

\* A failed dial or probe is retried, except by a shutdown.
Retries(j) == j \notin {"shutdown", "shutdownExec"}

Redial(unread) ==
  IF Retries(job)
  THEN /\ pc' = "dial" /\ Disconnect(unread)
       /\ UNCHANGED <<job, step, data, result, provisioned>>
  ELSE Finish("failed", unread)

\* What a round trip that fails means: Shutdown takes silence for success, and
\* the polls of shutdown_exec end with it.
Broken(unread) ==
  IF pc \in {"sync", "probe"} THEN Redial(unread)
  ELSE Finish(IF waiting = "shutdown" \/ (job = "shutdownExec" /\ waiting = "status")
              THEN "ok" ELSE "failed", unread)

\* The RPC bound or the context ends the wait, which poisons the connection.
TimeOut ==
  /\ waiting # "none"
  /\ Broken(stream)
  /\ UNCHANGED <<guest, host>>

-----------------------------------------------------------------------------
(* Round trips *)

IntAnswers == {"open", "openRead"}   \* answers that are a number, the others are objects

\* Whether the answer to command a decodes as the result of cmd.
Decodes(cmd, a) ==
  CASE cmd \in IntAnswers -> a \in IntAnswers
    [] cmd = "exec" -> a = "exec"
    [] cmd \in {"status", "read"} -> a \notin IntAnswers
    [] OTHER -> TRUE

\* Fault: an unreadable answer is skipped.
NothingIsUnreadable(a) == FALSE

\* The 0xff before a synchronization answer is no JSON: it ends the stream.
Unreadable(a) == a.cmd = "sync"

\* The job after its command was answered.
Advance(a) ==
  LET n == step + 1 IN
  IF waiting = "ping" THEN pc' = "run" /\ waiting' = "none" /\ UNCHANGED <<step, data>>
  ELSE IF waiting = "status"
  THEN \* exited or not; only a status answer can say so
       \/ a.cmd = "status" /\ pc' = "decide" /\ step' = n /\ waiting' = "none" /\ UNCHANGED data
       \/ pc' = "run" /\ waiting' = "none" /\ UNCHANGED <<step, data>>
  ELSE IF waiting = "read"
  THEN /\ data' = data \o a.data
       /\ step' = IF a.cmd = "read" /\ a.eof THEN n ELSE step
       /\ pc' = "run" /\ waiting' = "none"
  ELSE pc' = "run" /\ step' = n /\ waiting' = "none" /\ UNCHANGED data

Receives(a) ==
  /\ stream' = Tail(stream)
  /\ answers' = answers \cup {IF a.conn = conn THEN "own" ELSE "stale"}

\* A failed read or write of a guest file is followed by its CloseFile.
ClosesAfter ==
  /\ pc' = "closing" /\ data' = <<>>
  /\ Send(conn, "close")
  /\ UNCHANGED <<job, step, conn, result, provisioned>>

Answer ==
  /\ pc \in {"probe", "run"} /\ waiting # "none" /\ stream # <<>>
  /\ LET a == Head(stream) IN
     IF Unreadable(a)
     THEN Broken(Tail(stream))
     ELSE \/ /\ Decodes(waiting, a.cmd)
             /\ waiting = "openRead" => exists   \* no handle of a file that is not there
             /\ Receives(a)
             /\ Advance(a)
             /\ UNCHANGED <<job, conn, result, provisioned, inbox>>
          \/ \* an error, or no such result
             CASE waiting = "ping" -> Redial(Tail(stream))
               [] waiting \in {"read", "write"} -> Receives(a) /\ ClosesAfter
               [] OTHER -> Finish("failed", Tail(stream))
  /\ UNCHANGED <<guest, host>>

\* Whatever CloseFile returns is joined to the failure.
CloseAnswered ==
  /\ pc = "closing" /\ stream # <<>>
  /\ Finish("failed", Tail(stream))
  /\ UNCHANGED <<guest, host>>

\* The next command, or the end of the program.
Run ==
  /\ pc = "run" /\ waiting = "none"
  /\ IF step < Len(Program(job))
     THEN /\ Send(conn, Program(job)[step + 1])
          /\ UNCHANGED <<job, pc, step, conn, data, result, provisioned, answers, stream>>
     ELSE IF job = "writeBack"
     THEN /\ pc' = "host"
          /\ UNCHANGED <<job, step, conn, waiting, data, result, provisioned, answers, channel>>
     ELSE Finish("ok", stream)
  /\ UNCHANGED <<guest, host>>

\* A guest command has exited.  A path that exists and may not be overwritten
\* ends the provisioning of the file (test answers by its exit status); of the
\* others any status but zero fails the job.
Decide ==
  LET testing == job = "provision" /\ step = 2 IN
  /\ pc = "decide"
  /\ \/ /\ testing => ~exists \/ "stale" \in answers
        /\ pc' = "run"
        /\ UNCHANGED <<job, step, conn, waiting, data, result, provisioned, answers, channel, skippedEmpty>>
     \/ /\ testing /\ (exists \/ "stale" \in answers)
        /\ skippedEmpty' = (skippedEmpty \/ guestFile = <<>>)
        /\ Finish("ok", stream)
     \/ /\ ~testing /\ Finish("failed", stream) /\ UNCHANGED skippedEmpty
  /\ UNCHANGED <<guest, overwrite, hostFile, temp>>

-----------------------------------------------------------------------------
(* WriteHostFileAtomic *)

\* Fault: the host file is written in place.
WriteInPlace(content) == hostFile' = content /\ temp' = content

\* Data goes to a temporary file beside the host file.
WriteTemp(content) == temp' = content /\ UNCHANGED hostFile

WriteHost ==
  /\ pc = "host" /\ data # <<>> /\ Len(temp) < Len(data)
  /\ WriteTemp(SubSeq(data, 1, Len(temp) + 1))
  /\ UNCHANGED <<client, channel, guest, overwrite, skippedEmpty>>

Rename ==
  /\ pc = "host" /\ temp = data
  /\ hostFile' = temp /\ temp' = <<>>
  /\ Finish("ok", stream)
  /\ UNCHANGED <<guest, overwrite, skippedEmpty>>

\* Lstat, CreateTemp, a write, the chmod or the rename fail: the temporary file
\* is removed.
WriteHostFails ==
  /\ pc = "host"
  /\ temp' = <<>>
  /\ Finish("failed", stream)
  /\ UNCHANGED <<guest, overwrite, hostFile, skippedEmpty>>

\* The next launch, after a failed start, a teardown or the death of virtle at
\* any moment: another machine on the same disks.
Relaunch ==
  /\ job' = "none" /\ pc' = "idle" /\ step' = 0 /\ waiting' = "none" /\ data' = <<>>
  /\ conn' = 0 /\ result' = "none" /\ provisioned' = FALSE /\ answers' = {}
  /\ inbox' = <<>> /\ stream' = <<>> /\ temp' = <<>>
  /\ UNCHANGED <<guest, overwrite, hostFile, skippedEmpty>>

\* Suspend and resume: the agent, its file and what is on the channel are part of
\* the saved guest, except for the answers QEMU had already buffered.  No suspend
\* is served while start provisions or a write-back runs, but one is just before
\* start provisions.  The resumed launch writes no files and enables write-back.
Resume ==
  /\ pc # "ended" /\ job \notin {"provision", "writeBack"}
  /\ job' = "none" /\ pc' = "idle" /\ step' = 0 /\ data' = <<>> /\ result' = "none"
  /\ provisioned' = TRUE
  /\ Disconnect(stream)
  /\ skippedEmpty' = (skippedEmpty \/ (exists /\ guestFile = <<>>))
  /\ UNCHANGED <<guest, overwrite, hostFile, temp>>

Next ==
  \/ AgentAnswers \/ GuestEdits
  \/ \E j \in Jobs : Begin(j)
  \/ Dial \/ DialFails \/ Synchronize \/ TimeOut \/ Answer \/ CloseAnswered \/ Run \/ Decide
  \/ WriteHost \/ Rename \/ WriteHostFails \/ Relaunch \/ Resume

Spec == Init /\ [][Next]_vars

-----------------------------------------------------------------------------
(* Properties *)

Commands == {"sync", "ping", "exec", "status", "open", "write", "close",
             "openRead", "read", "shutdown"}
Pieces == [of : {"host", "edit"}, piece : 1 .. Chunks]
Requests == [conn : Nat, cmd : Commands]
Replies == [conn : Nat, cmd : Commands, data : Seq(Pieces), eof : BOOLEAN]

\* Every variable in its range; the guest file is empty, the one provisioned or
\* the one edited.
TypeOK ==
  /\ job \in Jobs \cup {"none"}
  /\ pc \in {"idle", "dial", "sync", "probe", "run", "decide", "closing", "host", "ended"}
  /\ step \in Nat /\ conn \in Nat
  /\ waiting \in Commands \cup {"none"}
  /\ result \in {"none", "ok", "failed"}
  /\ answers \subseteq {"own", "stale"}
  /\ inbox \in Seq(Requests) /\ stream \in Seq(Replies)
  /\ {data, hostFile, temp} \subseteq Seq(Pieces)
  /\ guestFile \in {<<>>, File("host"), File("edit")}
  /\ readPos \in Nat
  /\ {provisioned, exists, overwrite, skippedEmpty} \subseteq BOOLEAN

\* No connection takes both an answer to an earlier connection and one of its
\* own.  The constant identifier lets a client accept the synchronization of an
\* earlier one, and after three cut connections even an exec answer of theirs;
\* but its own synchronization answer then lies between the stale answers and
\* its own, and reading that ends the connection.
StaleNeverMixes == answers # {"own", "stale"}

\* The host file is whole at every moment, a crash included: all its pieces, in
\* their order, of the old content or of what was read back, although answers to
\* an earlier write-back may be among those taken.  It is emptied in one case
\* only, when provisioning was cut off between opening the guest file and writing
\* it, and a later launch kept the empty file: one that may not overwrite it and
\* took it for the guest's own, or one that was suspended before it provisioned,
\* whose resume enables write-back without having provisioned.
HostFileWhole ==
  \/ Len(hostFile) = Chunks /\ \A i \in 1 .. Chunks : hostFile[i].piece = i
  \/ hostFile = <<>> /\ skippedEmpty

=============================================================================
