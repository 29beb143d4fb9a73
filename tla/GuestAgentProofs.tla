-------------------------- MODULE GuestAgentProofs --------------------------
(***************************************************************************)
(* For any number of connections and a file of any size: no connection     *)
(* takes both stale answers and its own, and the host file of a write-back *)
(* is whole at every moment.                                               *)
(*                                                                         *)
(* Both rest on the order of the one channel.  Unread answers followed by  *)
(* unseen commands are one sequence, the wire, that clients take from at   *)
(* the front and append to at the end while the agent moves the border     *)
(* between the two.  The invariant says what the wire holds: stale traffic *)
(* up to this connection's synchronization (Parted); no write behind a     *)
(* read, and a guest file that was written before it is read, or that a    *)
(* launch kept (Written); no read of a file that is not there (Present);   *)
(* answers to reads that continue one another from an opening on (Chained) *)
(* and continue what the write-back has collected (Collected).             *)
(***************************************************************************)
EXTENDS GuestAgent, Integers, TLAPS

-----------------------------------------------------------------------------
(* The parts of the inductive invariant *)

\* TypeOK, each variable on its own.
Types ==
  /\ job \in Jobs \cup {"none"}
  /\ pc \in {"idle", "dial", "sync", "probe", "run", "decide", "closing", "host", "ended"}
  /\ step \in Nat /\ conn \in Nat
  /\ waiting \in Commands \cup {"none"}
  /\ result \in {"none", "ok", "failed"}
  /\ answers \subseteq {"own", "stale"}
  /\ inbox \in Seq(Requests) /\ stream \in Seq(Replies)
  /\ data \in Seq(Pieces) /\ hostFile \in Seq(Pieces) /\ temp \in Seq(Pieces)
  /\ guestFile \in {<<>>, File("host"), File("edit")}
  /\ readPos \in Nat
  /\ provisioned \in BOOLEAN /\ exists \in BOOLEAN
  /\ overwrite \in BOOLEAN /\ skippedEmpty \in BOOLEAN

\* What the client waits for, by where it is.
Flow ==
  /\ job = "none" <=> pc \in {"idle", "ended"}
  /\ pc \in {"idle", "dial", "decide", "host", "ended"} => waiting = "none"
  /\ pc = "sync" => waiting = "sync"
  /\ pc = "probe" => waiting = "ping"
  /\ pc = "run" =>
       /\ step <= Len(Program(job))
       /\ waiting # "none" => step < Len(Program(job)) /\ waiting = Program(job)[step + 1]
  /\ pc \in {"dial", "sync", "probe"} =>
       step = 0 \/ (job = "provision" /\ step = 2)
  /\ pc = "decide" => /\ job \in {"provision", "exec", "shutdownExec"}
                      /\ step <= Len(Program(job))
  /\ pc = "closing" =>
       waiting = "close" /\ ((job = "provision" /\ step = 5) \/ (job = "writeBack" /\ step = 1))
  /\ pc = "host" => job = "writeBack" /\ step = 3
  /\ job = "provision" => ~provisioned
  /\ job = "writeBack" => provisioned

\* The wire: the answers nobody has read, then the commands nobody has seen.
\* The agent only moves the border between the two.
Size == Len(stream) + Len(inbox)

Wire ==
  [i \in 1 .. Len(stream) + Len(inbox) |->
     IF i <= Len(stream)
     THEN [conn |-> stream[i].conn, cmd |-> stream[i].cmd]
     ELSE [conn |-> inbox[i - Len(stream)].conn, cmd |-> inbox[i - Len(stream)].cmd]]

\* Everything on the wire is of this connection, behind its synchronization.
Clean == \A i \in 1 .. Size : Wire[i].conn = conn /\ Wire[i].cmd # "sync"

\* The synchronization of this connection is on the wire and parts what is
\* stale from what is its own.
SyncAhead ==
  \E i \in 1 .. Size :
    /\ Wire[i].conn = conn /\ Wire[i].cmd = "sync"
    /\ \A j \in 1 .. Size : j < i => Wire[j].conn # conn
    /\ \A j \in 1 .. Size : j > i => Wire[j].conn = conn /\ Wire[j].cmd # "sync"

Parted ==
  /\ \A i \in 1 .. Size : Wire[i].conn <= conn
  /\ pc \in {"idle", "dial", "sync", "ended"} => answers = {}
  /\ pc = "sync" => SyncAhead
  /\ pc \in {"probe", "run", "decide", "closing", "host"} =>
       \/ Clean /\ answers \subseteq {"own"}
       \/ SyncAhead /\ answers \subseteq {"stale"}

Reads == {"openRead", "read"}
Writes == {"open", "write"}

\* The guest file is whole, a launch kept it empty, or there is none (a machine
\* that was suspended before it provisioned).
Solid == Len(guestFile) = Chunks \/ (Len(guestFile) = 0 /\ (skippedEmpty \/ ~exists))

\* It is, and is not about to be emptied, or it is about to be written.
Settled ==
  \/ \E i \in Len(stream) + 1 .. Size :
       /\ Wire[i].cmd = "write"
       /\ \A j \in Len(stream) + 1 .. Size : j > i => Wire[j].cmd # "open"
  \/ Solid /\ \A j \in Len(stream) + 1 .. Size : Wire[j].cmd # "open"

\* What is read back was provisioned before.
Written ==
  /\ provisioned => Settled
  /\ job = "provision" /\ (step >= 6 \/ waiting = "write") => Settled
  /\ \A i \in Len(stream) + 1 .. Size :
       Wire[i].cmd \in Writes =>
         \/ provisioned \/ pc = "ended"
         \/ job = "provision" /\ (step >= 5 \/ waiting = "open")
  /\ \A i \in 1 .. Size : Wire[i].cmd \in Reads => provisioned
  /\ \A i, j \in 1 .. Size : i < j /\ Wire[i].cmd \in Reads => Wire[j].cmd \notin Writes

\* Only a file that is there is read.
Present ==
  /\ job = "writeBack" /\ step >= 1 => exists
  /\ \A i \in 1 .. Size : Wire[i].cmd = "read" => exists

\* Answer a holds the piece after the first k of a file, or all of an empty one.
Holds(file, empty, a, k) ==
  \/ /\ Len(file) = Chunks
     /\ Len(a.data) = 1 /\ a.data[1].piece = k + 1
     /\ a.eof <=> k + 1 = Chunks
  \/ k = 0 /\ Len(a.data) = 0 /\ a.eof /\ empty

\* The unread answers to reads follow one another from an opening on, and the
\* agent's position continues the last of them.
Chained ==
  /\ \A i \in 1 .. Len(stream) : stream[i].cmd # "read" => Len(stream[i].data) = 0
  /\ \A i \in 2 .. Size : Wire[i].cmd = "read" => Wire[i - 1].cmd \in Reads
  /\ \A i \in 2 .. Len(stream) :
       stream[i].cmd = "read" =>
         /\ stream[i - 1].cmd = "openRead" => Holds(guestFile, skippedEmpty, stream[i], 0)
         /\ stream[i - 1].cmd = "read" /\ ~stream[i - 1].eof =>
              Holds(guestFile, skippedEmpty, stream[i], stream[i - 1].data[1].piece)
  /\ \A i \in 1 .. Len(stream) :
       stream[i].cmd = "read" /\ ~stream[i].eof =>
         /\ Len(guestFile) = Chunks /\ Len(stream[i].data) = 1
         /\ stream[i].data[1].piece < Chunks
  /\ Len(stream) > 0 /\ stream[Len(stream)].cmd = "openRead" => readPos = 0
  /\ Len(stream) > 0 /\ stream[Len(stream)].cmd = "read" /\ ~stream[Len(stream)].eof =>
       readPos = stream[Len(stream)].data[1].piece

Reading == job = "writeBack" /\ pc = "run" /\ step = 1

\* What a write-back has collected, and that the next answer to a read, on the
\* wire or still to come, continues it.
Collected ==
  /\ Len(data) > 0 =>
       /\ job = "writeBack" /\ pc \in {"run", "host"} /\ step >= 1
       /\ Len(guestFile) = Chunks
       /\ \A i \in Len(stream) + 1 .. Size : Wire[i].cmd \notin Writes
       /\ \A i \in 1 .. Len(data) : data[i].piece = i
  /\ job = "writeBack" /\ step >= 2 => Len(data) = Chunks \/ (Len(data) = 0 /\ skippedEmpty)
  /\ job = "writeBack" /\ pc = "run" /\ waiting = "openRead" /\ Size > 0 =>
       Wire[Size].cmd = "openRead"
  /\ Reading =>
       /\ Len(data) < Chunks
       /\ Size > 0 => Wire[Size].cmd \in Reads
       /\ Len(stream) > 0 /\ stream[1].cmd = "read" => Holds(guestFile, skippedEmpty, stream[1], Len(data))
       /\ Len(stream) = 0 /\ (Size = 0 \/ Wire[1].cmd = "read") => readPos = Len(data)

\* The inductive invariant.
AgentInv ==
  Types /\ Flow /\ Parted /\ Written /\ Present /\ Chained /\ Collected /\ HostFileWhole

-----------------------------------------------------------------------------
(* Programs and files *)

\* How long the programs are.
LEMMA ProgramLengths ==
  /\ Len(Program("provision")) = 9 /\ Len(Program("writeBack")) = 3
  /\ Len(Program("exec")) = 2 /\ Len(Program("shutdownExec")) = 2
  /\ Len(Program("shutdown")) = 1
BY DEF Program

\* Where the commands of the programs are.
LEMMA ProgramCommands ==
  ASSUME NEW j \in Jobs, NEW k \in Nat, k < Len(Program(j))
  PROVE  /\ Program(j)[k + 1] \in Commands \ {"sync", "ping"}
         /\ Program(j)[k + 1] = "open" <=> j = "provision" /\ k = 4
         /\ Program(j)[k + 1] = "write" <=> j = "provision" /\ k = 5
         /\ Program(j)[k + 1] = "openRead" <=> j = "writeBack" /\ k = 0
         /\ Program(j)[k + 1] = "read" <=> j = "writeBack" /\ k = 1
         /\ Program(j)[k + 1] = "status" => j \in {"provision", "exec", "shutdownExec"}
         /\ Program(j)[k + 1] = "shutdown" => j = "shutdown"
<1>1. CASE j = "provision"
  <2>0. k < 9
    BY <1>1, ProgramLengths
  <2>1. k \in {0, 1, 2, 3, 4, 5, 6, 7, 8}
    BY <2>0
  <2>2. Program(j) = <<"exec", "status", "exec", "status",
                       "open", "write", "close", "exec", "status">>
    BY <1>1 DEF Program
  <2>3. /\ Program(j)[1] = "exec" /\ Program(j)[2] = "status" /\ Program(j)[3] = "exec"
        /\ Program(j)[4] = "status" /\ Program(j)[5] = "open" /\ Program(j)[6] = "write"
        /\ Program(j)[7] = "close" /\ Program(j)[8] = "exec" /\ Program(j)[9] = "status"
    BY <2>2
  <2>4. \/ k = 0 /\ Program(j)[k + 1] = "exec"
        \/ k = 1 /\ Program(j)[k + 1] = "status"
        \/ k = 2 /\ Program(j)[k + 1] = "exec"
        \/ k = 3 /\ Program(j)[k + 1] = "status"
        \/ k = 4 /\ Program(j)[k + 1] = "open"
        \/ k = 5 /\ Program(j)[k + 1] = "write"
        \/ k = 6 /\ Program(j)[k + 1] = "close"
        \/ k = 7 /\ Program(j)[k + 1] = "exec"
        \/ k = 8 /\ Program(j)[k + 1] = "status"
    BY <2>1, <2>3
  <2> QED
    BY <1>1, <2>4 DEF Commands
<1>2. CASE j = "writeBack"
  <2>0. k < 3
    BY <1>2, ProgramLengths
  <2>1. k \in {0, 1, 2}
    BY <2>0
  <2>2. Program(j) = <<"openRead", "read", "close">>
    BY <1>2 DEF Program
  <2>3. \/ k = 0 /\ Program(j)[k + 1] = "openRead"
        \/ k = 1 /\ Program(j)[k + 1] = "read"
        \/ k = 2 /\ Program(j)[k + 1] = "close"
    BY <2>1, <2>2
  <2> QED
    BY <1>2, <2>3 DEF Commands
<1>3. CASE j \in {"exec", "shutdownExec"}
  <2>0. k < 2
    BY <1>3, ProgramLengths
  <2>1. k \in {0, 1}
    BY <2>0
  <2>2. Program(j) = <<"exec", "status">>
    BY <1>3 DEF Program
  <2>3. \/ k = 0 /\ Program(j)[k + 1] = "exec"
        \/ k = 1 /\ Program(j)[k + 1] = "status"
    BY <2>1, <2>2
  <2> QED
    BY <1>3, <2>3 DEF Commands
<1>4. CASE j = "shutdown"
  <2>0. k < 1
    BY <1>4, ProgramLengths
  <2>1. k = 0
    BY <2>0
  <2>2. Program(j) = <<"shutdown">>
    BY <1>4 DEF Program
  <2>3. Program(j)[k + 1] = "shutdown"
    BY <2>1, <2>2
  <2> QED
    BY <1>4, <2>1, <2>3 DEF Commands
<1> QED
  BY <1>1, <1>2, <1>3, <1>4 DEF Jobs

\* A file is all of its pieces in their order.
LEMMA FileFacts ==
  ASSUME NEW v \in {"host", "edit"}
  PROVE  /\ File(v) \in Seq(Pieces)
         /\ Len(File(v)) = Chunks
         /\ \A i \in 1 .. Chunks : File(v)[i].piece = i
<1>1. Chunks \in Nat
  BY GuestAgentAssumption
<1>2. \A i \in 1 .. Chunks : [of |-> v, piece |-> i] \in Pieces
  BY DEF Pieces
<1>3. File(v) \in [1 .. Chunks -> Pieces]
  BY <1>2 DEF File
<1> QED
  BY <1>1, <1>3 DEF File

\* The guest file is empty or whole, its pieces in their order.
LEMMA GuestFileFacts ==
  ASSUME Types
  PROVE  /\ guestFile \in Seq(Pieces)
         /\ Len(guestFile) \in {0, Chunks}
         /\ Len(guestFile) = 0 <=> guestFile = <<>>
         /\ Len(guestFile) = Chunks => \A i \in 1 .. Chunks : guestFile[i].piece = i
<1>1. Chunks \in Nat \ {0}
  BY GuestAgentAssumption
<1>2. CASE guestFile = <<>>
  BY <1>1, <1>2
<1>3. CASE guestFile = File("host")
  BY <1>1, <1>3, FileFacts
<1>4. CASE guestFile = File("edit")
  BY <1>1, <1>4, FileFacts
<1> QED
  BY <1>2, <1>3, <1>4 DEF Types

-----------------------------------------------------------------------------
(* The wire *)

\* The wire holds commands, those of the stream first.
LEMMA WireTypes ==
  ASSUME Types
  PROVE  /\ Len(stream) \in Nat /\ Len(inbox) \in Nat /\ Size \in Nat
         /\ Len(stream) <= Size
         /\ \A i \in 1 .. Size : Wire[i].conn \in Nat /\ Wire[i].cmd \in Commands
         /\ \A i \in 1 .. Len(stream) :
              Wire[i].conn = stream[i].conn /\ Wire[i].cmd = stream[i].cmd
<1>1. stream \in Seq(Replies) /\ inbox \in Seq(Requests)
  BY DEF Types
<1>2. Len(stream) \in Nat /\ Len(inbox) \in Nat
  BY <1>1
<1>3. \A i \in 1 .. Len(stream) : stream[i].conn \in Nat /\ stream[i].cmd \in Commands
  <2>1. \A i \in 1 .. Len(stream) : stream[i] \in Replies
    BY <1>1
  <2> QED
    BY <2>1 DEF Replies
<1>4. \A i \in 1 .. Len(inbox) : inbox[i].conn \in Nat /\ inbox[i].cmd \in Commands
  <2>1. \A i \in 1 .. Len(inbox) : inbox[i] \in Requests
    BY <1>1
  <2> QED
    BY <2>1 DEF Requests
<1>5. ASSUME NEW i \in 1 .. Size
      PROVE  Wire[i].conn \in Nat /\ Wire[i].cmd \in Commands
  <2>1. CASE i <= Len(stream)
    BY <1>2, <1>3, <2>1 DEF Wire, Size
  <2>2. CASE ~(i <= Len(stream))
    <3>1. i - Len(stream) \in 1 .. Len(inbox)
      BY <1>2, <2>2 DEF Size
    <3> QED
      BY <1>2, <1>4, <2>2, <3>1 DEF Wire, Size
  <2> QED
    BY <2>1, <2>2
<1> QED
  BY <1>2, <1>3, <1>5 DEF Wire, Size

\* A step of the client: it takes d answers and, if e is 1, sends command x on
\* connection c.
Moved(d, e, c, x) ==
  /\ d \in 0 .. Len(stream) /\ e \in {0, 1}
  /\ Len(stream') = Len(stream) - d
  /\ Size' = Size - d + e
  /\ \A i \in 1 .. Size - d : Wire'[i] = Wire[i + d]
  /\ \A i \in 1 .. Len(stream) - d : stream'[i] = stream[i + d]
  /\ e = 1 => Wire'[Size'] = [conn |-> c, cmd |-> x]

\* Taking from the front of the stream and appending to the inbox moves the wire.
LEMMA WireMoves ==
  ASSUME Types, NEW d \in 0 .. Len(stream), NEW e \in {0, 1}, NEW c, NEW x,
         stream' = SubSeq(stream, d + 1, Len(stream)),
         inbox' = IF e = 1 THEN Append(inbox, [conn |-> c, cmd |-> x]) ELSE inbox
  PROVE  Moved(d, e, c, x)
<1>1. stream \in Seq(Replies) /\ inbox \in Seq(Requests)
  BY DEF Types
<1>2. /\ Len(stream) \in Nat /\ Len(inbox) \in Nat
      /\ d \in Nat /\ d <= Len(stream) /\ e \in Nat /\ e <= 1
  BY <1>1
<1>3. /\ Len(stream') = Len(stream) - d
      /\ \A i \in 1 .. Len(stream) - d : stream'[i] = stream[i + d]
  BY <1>1, <1>2
<1>4. /\ Len(inbox') = Len(inbox) + e
      /\ \A i \in 1 .. Len(inbox) : inbox'[i] = inbox[i]
      /\ e = 1 => inbox'[Len(inbox) + 1] = [conn |-> c, cmd |-> x]
  <2>1. CASE e = 1
    BY <1>1, <1>2, <2>1
  <2>2. CASE e = 0
    BY <1>1, <1>2, <2>2
  <2> QED
    BY <2>1, <2>2
<1>l. Len(stream') = Len(stream) - d /\ Len(inbox') = Len(inbox) + e
  BY <1>3, <1>4
<1> DEFINE a == Len(stream)  a2 == Len(stream')  b == Len(inbox)  b2 == Len(inbox')
<1>m. /\ a \in Nat /\ b \in Nat /\ d \in Nat /\ d <= a /\ e \in Nat /\ e <= 1
      /\ a2 = a - d /\ b2 = b + e
  BY <1>2, <1>l
<1>z. Size = a + b /\ Size' = a2 + b2
  BY DEF Size
<1>5. Size' = Size - d + e
  <2> HIDE DEF a, a2, b, b2
  <2> QED
    BY <1>m, <1>z
<1>n. Size = Len(stream) + Len(inbox)
  BY DEF Size
<1>6. ASSUME NEW i \in 1 .. Size - d
      PROVE  Wire'[i] = Wire[i + d]
  <2>1. /\ i \in 1 .. Size' /\ i + d \in 1 .. Size
    BY <1>2, <1>5, <1>n
  <2>2. CASE i <= Len(stream')
    <3>1. i \in 1 .. Len(stream) - d /\ i + d <= Len(stream)
      BY <1>2, <1>3, <2>2
    <3>2. stream'[i] = stream[i + d]
      BY <1>3, <3>1
    <3> QED
      BY <2>1, <2>2, <3>1, <3>2 DEF Wire, Size
  <2>3. CASE ~(i <= Len(stream'))
    <3>1. /\ i - Len(stream') = (i + d) - Len(stream)
          /\ i - Len(stream') \in 1 .. Len(inbox)
          /\ ~(i + d <= Len(stream))
      <4> HIDE DEF a, a2, b, b2
      <4>1. ~(i <= a2) /\ i \in 1 .. (a + b) - d
        BY <1>z, <2>3 DEF a2
      <4>2. /\ i - a2 = (i + d) - a
            /\ i - a2 \in 1 .. b
            /\ ~(i + d <= a)
        BY <1>m, <4>1
      <4> QED
        BY <4>2 DEF a, a2, b
    <3>2. inbox'[i - Len(stream')] = inbox[(i + d) - Len(stream)]
      BY <1>4, <3>1
    <3> QED
      BY <2>1, <2>3, <3>1, <3>2 DEF Wire, Size
  <2> QED
    BY <2>2, <2>3
<1>7. ASSUME e = 1
      PROVE  Wire'[Size'] = [conn |-> c, cmd |-> x]
  <2>1. /\ Size' \in 1 .. Size' /\ ~(Size' <= Len(stream'))
        /\ Size' - Len(stream') = Len(inbox) + 1
    <3> HIDE DEF a, a2, b, b2
    <3>1. /\ Size' \in 1 .. Size' /\ ~(Size' <= a2)
          /\ Size' - a2 = b + 1
      BY <1>m, <1>z, <1>7
    <3> QED
      BY <3>1 DEF a2, b
  <2>2. inbox'[Size' - Len(stream')] = [conn |-> c, cmd |-> x]
    BY <1>4, <1>7, <2>1
  <2> QED
    BY <2>1, <2>2 DEF Wire, Size
<1> QED
  BY <1>3, <1>5, <1>6, <1>7 DEF Moved

\* The steps of the client that do not send, and those that only send.
LEMMA WireKept ==
  ASSUME Types, stream' = stream, inbox' = inbox
  PROVE  Moved(0, 0, conn, "none")
<1>1. stream \in Seq(Replies) /\ Len(stream) \in Nat
  BY DEF Types
<1>2. SubSeq(stream, 0 + 1, Len(stream)) = stream
  BY <1>1
<1> QED
  BY <1>1, <1>2, WireMoves

\* A step that only sends.
LEMMA WireSends ==
  ASSUME Types, NEW c, NEW x, stream' = stream,
         inbox' = Append(inbox, [conn |-> c, cmd |-> x])
  PROVE  Moved(0, 1, c, x)
<1>1. stream \in Seq(Replies) /\ Len(stream) \in Nat
  BY DEF Types
<1>2. SubSeq(stream, 0 + 1, Len(stream)) = stream
  BY <1>1
<1> QED
  BY <1>1, <1>2, WireMoves

\* A step that only takes the first answer.
LEMMA WireTaken ==
  ASSUME Types, stream # <<>>, stream' = Tail(stream), inbox' = inbox
  PROVE  Moved(1, 0, conn, "none")
<1>1. stream \in Seq(Replies) /\ Len(stream) \in Nat \ {0}
  BY DEF Types
<1>2. SubSeq(stream, 1 + 1, Len(stream)) = Tail(stream)
  BY <1>1
<1> QED
  BY <1>1, <1>2, WireMoves

\* The end of a connection takes any number of answers, after the first k were
\* read.
LEMMA WireCut ==
  ASSUME Types, NEW unread, Disconnect(unread),
         unread = stream \/ (stream # <<>> /\ unread = Tail(stream))
  PROVE  \E d \in 0 .. Len(stream) : Moved(d, 0, conn, "none")
<1>1. stream \in Seq(Replies) /\ Len(stream) \in Nat /\ inbox' = inbox
  BY DEF Types, Disconnect
<1>2. PICK k \in 1 .. Len(unread) + 1 : stream' = SubSeq(unread, k, Len(unread))
  BY DEF Disconnect
<1>3. CASE unread = stream
  <2>1. k - 1 \in 0 .. Len(stream) /\ stream' = SubSeq(stream, (k - 1) + 1, Len(stream))
    BY <1>1, <1>2, <1>3
  <2> DEFINE d == k - 1
  <2>2. d \in 0 .. Len(stream) /\ stream' = SubSeq(stream, d + 1, Len(stream))
    BY <2>1
  <2> HIDE DEF d
  <2>3. Moved(d, 0, conn, "none")
    BY <1>1, <2>2, WireMoves
  <2> QED
    BY <2>2, <2>3
<1>4. CASE stream # <<>> /\ unread = Tail(stream)
  <2>1. Len(unread) = Len(stream) - 1 /\ Len(stream) > 0
    BY <1>1, <1>4
  <2>2. k \in 0 .. Len(stream) /\ k \in Nat
    BY <1>1, <1>2, <2>1
  <2>3. SubSeq(Tail(stream), k, Len(stream) - 1) = SubSeq(stream, k + 1, Len(stream))
    BY <1>1, <1>2, <2>1, <2>2
  <2> QED
    <3>1. stream' = SubSeq(stream, k + 1, Len(stream))
      BY <1>2, <1>4, <2>1, <2>3
    <3>2. Moved(k, 0, conn, "none")
      BY <1>1, <2>2, <3>1, WireMoves
    <3> QED
      BY <2>2, <3>2
<1> QED
  BY <1>3, <1>4

\* The agent's answer leaves the wire as it is and moves its border by one.
LEMMA WireAnswered ==
  ASSUME Types, inbox # <<>>, inbox' = Tail(inbox), NEW a \in Replies,
         stream' = Append(stream, a), a.conn = Head(inbox).conn, a.cmd = Head(inbox).cmd
  PROVE  /\ Size' = Size /\ Wire' = Wire
         /\ Len(stream') = Len(stream) + 1 /\ Len(stream) + 1 <= Size
         /\ \A i \in 1 .. Len(stream) : stream'[i] = stream[i]
         /\ stream'[Len(stream) + 1] = a
         /\ Wire[Len(stream) + 1].cmd = a.cmd
<1>1. stream \in Seq(Replies) /\ inbox \in Seq(Requests)
  BY DEF Types
<1>2. Len(stream) \in Nat /\ Len(inbox) \in Nat \ {0}
  BY <1>1
<1>3. /\ Len(stream') = Len(stream) + 1
      /\ \A i \in 1 .. Len(stream) : stream'[i] = stream[i]
      /\ stream'[Len(stream) + 1] = a
  BY <1>1, <1>2
<1>4. /\ Len(inbox') = Len(inbox) - 1
      /\ \A i \in 1 .. Len(inbox) - 1 : inbox'[i] = inbox[i + 1]
      /\ inbox[1].conn = a.conn /\ inbox[1].cmd = a.cmd
  BY <1>1, <1>2
<1>5. Len(stream') + Len(inbox') = Len(stream) + Len(inbox) /\ Size' = Size /\ Len(stream) + 1 <= Size
  BY <1>2, <1>3, <1>4 DEF Size
<1> DEFINE new(i) == IF i <= Len(stream')
                     THEN [conn |-> stream'[i].conn, cmd |-> stream'[i].cmd]
                     ELSE [conn |-> inbox'[i - Len(stream')].conn, cmd |-> inbox'[i - Len(stream')].cmd]
           old(i) == IF i <= Len(stream)
                     THEN [conn |-> stream[i].conn, cmd |-> stream[i].cmd]
                     ELSE [conn |-> inbox[i - Len(stream)].conn, cmd |-> inbox[i - Len(stream)].cmd]
<1>6. ASSUME NEW i \in 1 .. Len(stream) + Len(inbox) PROVE new(i) = old(i)
  <2>1. CASE i <= Len(stream)
    BY <1>2, <1>3, <2>1
  <2>2. CASE i = Len(stream) + 1
    <3>1. i <= Len(stream') /\ ~(i <= Len(stream)) /\ i - Len(stream) = 1
      BY <1>2, <1>3, <2>2
    <3> QED
      BY <1>3, <1>4, <2>2, <3>1
  <2>3. CASE i > Len(stream) + 1
    <3>1. /\ ~(i <= Len(stream')) /\ ~(i <= Len(stream))
          /\ i - Len(stream') \in 1 .. Len(inbox) - 1
          /\ (i - Len(stream')) + 1 = i - Len(stream)
      BY <1>2, <1>3, <2>3
    <3>2. inbox'[i - Len(stream')] = inbox[i - Len(stream)]
      BY <1>4, <3>1
    <3> QED
      BY <3>1, <3>2
  <2> QED
    BY <1>2, <2>1, <2>2, <2>3
<1>7. Wire' = [i \in 1 .. Len(stream) + Len(inbox) |-> new(i)]
  BY <1>5 DEF Wire
<1>8. Wire = [i \in 1 .. Len(stream) + Len(inbox) |-> old(i)]
  BY DEF Wire
<1>9. Wire' = Wire
  <2> HIDE DEF new, old
  <2> QED
    BY <1>6, <1>7, <1>8
<1>10. Wire[Len(stream) + 1].cmd = a.cmd
  BY <1>2, <1>4 DEF Wire
<1> QED
  BY <1>3, <1>5, <1>9, <1>10

-----------------------------------------------------------------------------
(* What a step does *)

\* The unread answers at the end of a connection, after the last one taken.
Unread(u) == u = stream \/ (stream # <<>> /\ u = Tail(stream))

\* A connection that failed before its first command is made anew.
Redials ==
  /\ pc \in {"sync", "probe"} /\ pc' = "dial"
  /\ \E u : Unread(u) /\ Disconnect(u)
  /\ UNCHANGED <<job, step, data, result, provisioned>>
  /\ UNCHANGED guest /\ UNCHANGED host

\* A job ends.  Provisioning ends well after its last command, or when it keeps
\* the file there is; the host file changes by the rename alone.
Quits ==
  /\ pc # "idle" /\ pc # "ended"
  /\ \E o \in {"ok", "failed"} :
       /\ \E u : Unread(u) /\ Finish(o, u)
       /\ o = "ok" /\ job = "provision" =>
            \/ pc = "run" /\ step >= 9
            \/ pc = "decide" /\ step = 2 /\ (guestFile = <<>> => skippedEmpty')
  /\ skippedEmpty => skippedEmpty'
  /\ hostFile' = hostFile \/ (pc = "host" /\ hostFile' = data)
  /\ temp' = temp \/ temp' = <<>>
  /\ skippedEmpty' \in BOOLEAN
  /\ UNCHANGED guest /\ UNCHANGED overwrite

\* An answer is taken as the one awaited.
Takes ==
  /\ pc \in {"probe", "run"} /\ waiting # "none" /\ stream # <<>>
  /\ Head(stream).cmd # "sync" /\ Decodes(waiting, Head(stream).cmd)
  /\ waiting = "openRead" => exists
  /\ stream' = Tail(stream) /\ inbox' = inbox
  /\ answers' = answers \cup {IF Head(stream).conn = conn THEN "own" ELSE "stale"}
  /\ Advance(Head(stream))
  /\ UNCHANGED <<job, conn, result, provisioned>>
  /\ UNCHANGED guest /\ UNCHANGED host

\* An answer is taken as the failure of a read or a write, and the file closed.
Closes ==
  /\ pc = "run" /\ waiting \in {"read", "write"} /\ stream # <<>>
  /\ Head(stream).cmd # "sync"
  /\ Receives(Head(stream)) /\ ClosesAfter
  /\ UNCHANGED guest /\ UNCHANGED host

\* The next command of the program is sent.
RunSends ==
  /\ pc = "run" /\ waiting = "none" /\ step < Len(Program(job))
  /\ Send(conn, Program(job)[step + 1])
  /\ UNCHANGED <<job, pc, step, conn, data, result, provisioned, answers, stream>>
  /\ UNCHANGED guest /\ UNCHANGED host

\* A guest command exited with success, or all of a file is read.
Proceeds ==
  /\ \/ pc = "decide" /\ pc' = "run"
     \/ pc = "run" /\ waiting = "none" /\ ~(step < Len(Program(job))) /\ job = "writeBack" /\ pc' = "host"
  /\ UNCHANGED <<job, step, conn, waiting, data, result, provisioned, answers>>
  /\ UNCHANGED channel /\ UNCHANGED guest /\ UNCHANGED host

\* A round trip that fails is dialled again or ends the job.
LEMMA BrokenCases ==
  ASSUME Types, Flow, NEW u, Unread(u), waiting # "none", Broken(u), UNCHANGED guest, UNCHANGED host
  PROVE  Redials \/ Quits
<1>1. /\ skippedEmpty' = skippedEmpty /\ hostFile' = hostFile /\ temp' = temp
      /\ overwrite' = overwrite /\ skippedEmpty' \in BOOLEAN
  BY DEF host, Types
<1>2. pc \in {"sync", "probe", "run", "closing"}
  BY DEF Types, Flow
<1>3. CASE pc \in {"sync", "probe"}
  <2>1. Redial(u)
    BY <1>3 DEF Broken
  <2>2. CASE Retries(job)
    BY <1>3, <2>1, <2>2 DEF Redial, Redials
  <2>3. CASE ~Retries(job)
    BY <1>1, <1>2, <2>1, <2>3 DEF Redial, Quits
  <2> QED
    BY <2>2, <2>3
<1>4. CASE pc = "run"
  <2>1. job \in Jobs /\ step \in Nat /\ step < Len(Program(job)) /\ waiting = Program(job)[step + 1]
    BY <1>4 DEF Types, Flow
  <2>2. job = "provision" => waiting # "shutdown"
    BY <2>1, ProgramCommands
  <2> DEFINE o == IF waiting = "shutdown" \/ (job = "shutdownExec" /\ waiting = "status")
                  THEN "ok" ELSE "failed"
  <2>3. Finish(o, u) /\ o \in {"ok", "failed"}
    BY <1>4 DEF Broken
  <2>4. job = "provision" => o = "failed"
    BY <2>2
  <2> HIDE DEF o
  <2> QED
    BY <1>1, <1>4, <2>3, <2>4 DEF Quits
<1>5. CASE pc = "closing"
  <2>1. waiting = "close"
    BY <1>5 DEF Flow
  <2>2. Finish("failed", u)
    BY <1>5, <2>1 DEF Broken
  <2> QED
    BY <1>1, <1>5, <2>2 DEF Quits
<1> QED
  BY <1>2, <1>3, <1>4, <1>5

\* What a step of the specification can be; the ways a connection or a job can
\* end are one case each.
LEMMA StepCases ==
  ASSUME Types, Flow, [Next]_vars
  PROVE  \/ AgentAnswers \/ GuestEdits \/ (\E j \in Jobs : Begin(j)) \/ Dial
         \/ Redials \/ Quits \/ Synchronize \/ Takes \/ RunSends \/ Proceeds
         \/ WriteHost \/ Relaunch \/ Closes \/ Resume \/ UNCHANGED vars
<1>0. Unread(stream) /\ (stream # <<>> => Unread(Tail(stream)))
  BY DEF Unread
<1>h. UNCHANGED host =>
        /\ skippedEmpty' = skippedEmpty /\ hostFile' = hostFile /\ temp' = temp
        /\ overwrite' = overwrite /\ skippedEmpty' \in BOOLEAN
  BY DEF host, Types
<1>1. CASE DialFails
  <2>1. Finish("failed", stream) /\ pc = "dial" /\ UNCHANGED guest /\ UNCHANGED host
    BY <1>1 DEF DialFails
  <2>2. Quits
    BY <1>0, <1>h, <2>1 DEF Quits
  <2> QED
    BY <2>2
<1>2. CASE TimeOut
  <2>1. waiting # "none" /\ Broken(stream) /\ UNCHANGED guest /\ UNCHANGED host
    BY <1>2 DEF TimeOut
  <2> QED
    BY <1>0, <2>1, BrokenCases
<1>3. CASE Answer
  <2>1. /\ pc \in {"probe", "run"} /\ waiting # "none" /\ stream # <<>>
        /\ UNCHANGED guest /\ UNCHANGED host
    BY <1>3 DEF Answer
  <2>2. CASE Unreadable(Head(stream))
    <3>1. Broken(Tail(stream))
      BY <1>3, <2>2 DEF Answer
    <3> QED
      BY <1>0, <2>1, <3>1, BrokenCases
  <2>3. CASE /\ ~Unreadable(Head(stream))
             /\ Decodes(waiting, Head(stream).cmd)
             /\ waiting = "openRead" => exists
             /\ Receives(Head(stream))
             /\ Advance(Head(stream))
             /\ UNCHANGED <<job, conn, result, provisioned, inbox>>
    BY <2>1, <2>3 DEF Takes, Unreadable, Receives
  <2>4. CASE waiting = "ping" /\ Redial(Tail(stream))
    <3>1. pc = "probe"
      <4>1. pc = "run" => job \in Jobs /\ step \in Nat /\ step < Len(Program(job)) /\ waiting = Program(job)[step + 1]
        BY <2>1 DEF Types, Flow
      <4>2. pc = "run" => waiting # "ping"
        BY <4>1, ProgramCommands
      <4> QED
        BY <2>1, <2>4, <4>2
    <3>2. CASE Retries(job)
      BY <1>0, <2>1, <2>4, <3>1, <3>2 DEF Redial, Redials
    <3>3. CASE ~Retries(job)
      <4>1. Finish("failed", Tail(stream))
        BY <2>4, <3>3 DEF Redial
      <4>2. Quits
        BY <1>0, <1>h, <2>1, <3>1, <4>1 DEF Quits
      <4> QED
        BY <4>2
    <3> QED
      BY <3>2, <3>3
  <2>5. CASE waiting # "ping" /\ Finish("failed", Tail(stream))
    <3>1. Quits
      BY <1>0, <1>h, <2>1, <2>5 DEF Quits
    <3> QED
      BY <3>1
  <2>6. CASE /\ ~Unreadable(Head(stream)) /\ waiting \in {"read", "write"}
             /\ Receives(Head(stream)) /\ ClosesAfter
    <3>1. pc = "run"
      BY <2>1, <2>6 DEF Flow
    <3> QED
      BY <2>1, <2>6, <3>1 DEF Closes, Unreadable
  <2>7. \/ Unreadable(Head(stream)) /\ Broken(Tail(stream))
        \/ /\ ~Unreadable(Head(stream))
           /\ \/ /\ Decodes(waiting, Head(stream).cmd)
                 /\ waiting = "openRead" => exists
                 /\ Receives(Head(stream))
                 /\ Advance(Head(stream))
                 /\ UNCHANGED <<job, conn, result, provisioned, inbox>>
              \/ waiting = "ping" /\ Redial(Tail(stream))
              \/ waiting \in {"read", "write"} /\ Receives(Head(stream)) /\ ClosesAfter
              \/ waiting # "ping" /\ Finish("failed", Tail(stream))
    BY <1>3 DEF Answer
  <2> QED
    BY <2>2, <2>3, <2>4, <2>5, <2>6, <2>7
<1>4. CASE Run
  <2>1. pc = "run" /\ waiting = "none" /\ UNCHANGED guest /\ UNCHANGED host
    BY <1>4 DEF Run
  <2>2. CASE step < Len(Program(job))
    BY <1>4, <2>1, <2>2 DEF Run, RunSends
  <2>3. CASE ~(step < Len(Program(job))) /\ job = "writeBack"
    BY <1>4, <2>1, <2>3 DEF Run, Proceeds
  <2>4. CASE ~(step < Len(Program(job))) /\ job # "writeBack"
    <3>1. Finish("ok", stream)
      BY <1>4, <2>4 DEF Run
    <3>2. job = "provision" => step >= 9
      <4>1. step \in Nat
        BY DEF Types
      <4>2. job = "provision" => ~(step < 9)
        BY <2>4, ProgramLengths
      <4> QED
        BY <4>1, <4>2
    <3>3. Quits
      BY <1>0, <1>h, <2>1, <3>1, <3>2 DEF Quits
    <3> QED
      BY <3>3
  <2> QED
    BY <2>2, <2>3, <2>4
<1>5. CASE Decide
  <2>1. /\ pc = "decide" /\ UNCHANGED guest /\ overwrite' = overwrite /\ hostFile' = hostFile /\ temp' = temp
    BY <1>5 DEF Decide
  <2>2. CASE /\ pc' = "run"
             /\ UNCHANGED <<job, step, conn, waiting, data, result, provisioned, answers, channel, skippedEmpty>>
    BY <2>1, <2>2 DEF Proceeds, host
  <2>3. CASE /\ job = "provision" /\ step = 2
             /\ skippedEmpty' = (skippedEmpty \/ guestFile = <<>>)
             /\ Finish("ok", stream)
    <3>1. Quits
      BY <1>0, <2>1, <2>3 DEF Quits
    <3> QED
      BY <3>1
  <2>4. CASE Finish("failed", stream) /\ skippedEmpty' = skippedEmpty
    <3>1. skippedEmpty' \in BOOLEAN
      BY <2>4 DEF Types
    <3>2. Quits
      BY <1>0, <2>1, <2>4, <3>1 DEF Quits
    <3> QED
      BY <3>2
  <2> QED
    BY <1>5, <2>2, <2>3, <2>4 DEF Decide
<1>6. CASE Rename
  <2>1. /\ pc = "host" /\ temp = data /\ hostFile' = temp /\ temp' = <<>>
        /\ Finish("ok", stream) /\ UNCHANGED guest /\ overwrite' = overwrite /\ skippedEmpty' = skippedEmpty
    BY <1>6 DEF Rename
  <2>2. job # "provision" /\ skippedEmpty' \in BOOLEAN
    BY <2>1 DEF Flow, Types
  <2>3. Quits
    BY <1>0, <2>1, <2>2 DEF Quits
  <2> QED
    BY <2>3
<1>7. CASE WriteHostFails
  <2>1. /\ pc = "host" /\ hostFile' = hostFile /\ temp' = <<>>
        /\ Finish("failed", stream) /\ UNCHANGED guest /\ overwrite' = overwrite /\ skippedEmpty' = skippedEmpty
    BY <1>7 DEF WriteHostFails
  <2>2. skippedEmpty' \in BOOLEAN
    BY <2>1 DEF Types
  <2>3. Quits
    BY <1>0, <2>1, <2>2 DEF Quits
  <2> QED
    BY <2>3
<1>8. CASE CloseAnswered
  <2>1. /\ pc = "closing" /\ stream # <<>> /\ Finish("failed", Tail(stream))
        /\ UNCHANGED guest /\ UNCHANGED host
    BY <1>8 DEF CloseAnswered
  <2>2. Quits
    BY <1>0, <1>h, <2>1 DEF Quits
  <2> QED
    BY <2>2
<1> QED
  BY <1>1, <1>2, <1>3, <1>4, <1>5, <1>6, <1>7, <1>8 DEF Next

\* The ways in which an answer moves the job on.
LEMMA TakeCases ==
  ASSUME Types, Flow, Takes
  PROVE  \/ pc = "probe" /\ pc' = "run" /\ waiting' = "none" /\ UNCHANGED <<step, data>>
         \/ /\ pc = "run" /\ waiting = "status" /\ job \in {"provision", "exec", "shutdownExec"}
            /\ waiting' = "none" /\ data' = data
            /\ \/ pc' = "decide" /\ step' = step + 1
               \/ pc' = "run" /\ step' = step
         \/ /\ pc = "run" /\ waiting = "read" /\ job = "writeBack" /\ step = 1
            /\ pc' = "run" /\ waiting' = "none"
            /\ data' = data \o Head(stream).data
            /\ step' = IF Head(stream).cmd = "read" /\ Head(stream).eof THEN step + 1 ELSE step
         \/ /\ pc = "run" /\ waiting \notin {"ping", "status", "read"}
            /\ pc' = "run" /\ waiting' = "none" /\ step' = step + 1 /\ data' = data
<1>1. pc \in {"probe", "run"} /\ waiting # "none" /\ Advance(Head(stream))
  BY DEF Takes
<1>2. CASE pc = "probe"
  <2>1. waiting = "ping"
    BY <1>2 DEF Flow
  <2> QED
    BY <1>1, <1>2, <2>1 DEF Advance
<1>3. CASE pc = "run"
  <2>1. job \in Jobs /\ step \in Nat /\ step < Len(Program(job)) /\ waiting = Program(job)[step + 1]
    BY <1>1, <1>3 DEF Types, Flow
  <2>2. /\ waiting # "ping"
        /\ waiting = "status" => job \in {"provision", "exec", "shutdownExec"}
        /\ waiting = "read" => job = "writeBack" /\ step = 1
    BY <2>1, ProgramCommands
  <2>3. CASE waiting = "status"
    <3>1. \/ pc' = "decide" /\ step' = step + 1 /\ waiting' = "none" /\ data' = data
          \/ pc' = "run" /\ waiting' = "none" /\ step' = step /\ data' = data
      BY <1>1, <2>3 DEF Advance
    <3> QED
      BY <1>3, <2>2, <2>3, <3>1
  <2>4. CASE waiting = "read"
    BY <1>1, <1>3, <2>2, <2>4 DEF Advance
  <2>5. CASE waiting \notin {"status", "read"}
    BY <1>1, <1>3, <2>2, <2>5 DEF Advance
  <2> QED
    BY <2>3, <2>4, <2>5
<1> QED
  BY <1>1, <1>2, <1>3

\* What the agent answers to the oldest command.
Reply == [conn |-> Head(inbox).conn, cmd |-> Head(inbox).cmd,
          data |-> IF Head(inbox).cmd = "read" /\ readPos < Len(guestFile)
                   THEN <<guestFile[readPos + 1]>> ELSE <<>>,
          eof |-> readPos + 1 >= Len(guestFile)]

\* What the agent does with the oldest command.
LEMMA AgentCases ==
  ASSUME Types, AgentAnswers
  PROVE  /\ inbox # <<>> /\ inbox' = Tail(inbox) /\ stream' = Append(stream, Reply)
         /\ Reply \in Replies
         /\ Head(inbox).cmd = "open" => guestFile' = <<>>
         /\ Head(inbox).cmd = "write" => guestFile' = File("host")
         /\ Head(inbox).cmd \notin Writes => guestFile' = guestFile
         /\ Head(inbox).cmd # "open" => exists' = exists
         /\ exists => exists'
         /\ Head(inbox).cmd = "openRead" => readPos' = 0
         /\ Head(inbox).cmd = "read" /\ readPos < Len(guestFile) => readPos' = readPos + 1
         /\ readPos' \in Nat
         /\ UNCHANGED client /\ UNCHANGED host
<1>1. inbox # <<>> /\ inbox \in Seq(Requests) /\ stream \in Seq(Replies)
  BY DEF AgentAnswers, Types
<1>2. Head(inbox) \in Requests
  BY <1>1
<1>3. Head(inbox).conn \in Nat /\ Head(inbox).cmd \in Commands
  BY <1>2 DEF Requests
<1>4. guestFile \in Seq(Pieces) /\ readPos \in Nat
  BY GuestFileFacts DEF Types
<1>5. readPos < Len(guestFile) => guestFile[readPos + 1] \in Pieces
  BY <1>4
<1>6. <<>> \in Seq(Pieces) /\ (readPos < Len(guestFile) => <<guestFile[readPos + 1]>> \in Seq(Pieces))
  BY <1>5
<1>7. (readPos + 1 >= Len(guestFile)) \in BOOLEAN
  BY <1>4
<1>8. Reply \in Replies
  BY <1>3, <1>6, <1>7 DEF Reply, Replies
<1>9. /\ inbox' = Tail(inbox) /\ stream' = Append(stream, Reply)
      /\ UNCHANGED client /\ UNCHANGED host
  BY DEF AgentAnswers, Reply
<1>10. guestFile' = CASE Head(inbox).cmd = "open" -> <<>>
                      [] Head(inbox).cmd = "write" -> File("host")
                      [] OTHER -> guestFile
  BY DEF AgentAnswers
<1>11. readPos' = CASE Head(inbox).cmd = "openRead" -> 0
                    [] Head(inbox).cmd = "read" /\ readPos < Len(guestFile) -> readPos + 1
                    [] OTHER -> readPos
  BY DEF AgentAnswers
<1>12. /\ Head(inbox).cmd = "open" => guestFile' = <<>>
       /\ Head(inbox).cmd = "write" => guestFile' = File("host")
       /\ Head(inbox).cmd \notin Writes => guestFile' = guestFile
  BY <1>10 DEF Writes
<1>13. /\ Head(inbox).cmd = "openRead" => readPos' = 0
       /\ Head(inbox).cmd = "read" /\ readPos < Len(guestFile) => readPos' = readPos + 1
       /\ readPos' \in Nat
  BY <1>4, <1>11
<1>14. (Head(inbox).cmd # "open" => exists' = exists) /\ (exists => exists')
  <2>1. exists' = (exists \/ Head(inbox).cmd = "open")
    BY DEF AgentAnswers
  <2>2. exists \in BOOLEAN
    BY DEF Types
  <2> QED
    BY <2>1, <2>2
<1> QED
  BY <1>1, <1>8, <1>9, <1>12, <1>13, <1>14

-----------------------------------------------------------------------------
(* Types *)

\* Types holds at first.
LEMMA TypesInitially == Init => Types
<1> SUFFICES ASSUME Init PROVE Types
  OBVIOUS
<1>1. File("host") \in Seq(Pieces)
  BY FileFacts
<1>2. inbox \in Seq(Requests) /\ stream \in Seq(Replies)
  BY DEF Init
<1>3. data \in Seq(Pieces) /\ temp \in Seq(Pieces) /\ hostFile \in Seq(Pieces)
  BY <1>1 DEF Init
<1> QED
  BY <1>2, <1>3 DEF Init, Types

\* The end of a connection leaves answers.
LEMMA DisconnectTypes ==
  ASSUME Types, NEW u, Unread(u), Disconnect(u)
  PROVE  /\ stream' \in Seq(Replies) /\ inbox' \in Seq(Requests)
         /\ waiting' = "none" /\ answers' = {} /\ conn' = conn /\ inbox' = inbox
<1>1. stream \in Seq(Replies) /\ inbox \in Seq(Requests)
  BY DEF Types
<1>2. u \in Seq(Replies)
  BY <1>1 DEF Unread
<1>3. PICK k \in 1 .. Len(u) + 1 : stream' = SubSeq(u, k, Len(u))
  BY DEF Disconnect
<1>4. stream' \in Seq(Replies)
  BY <1>2, <1>3
<1> QED
  BY <1>1, <1>4 DEF Disconnect

\* What the closing after a failed read or write leaves.
LEMMA CloseFacts ==
  ASSUME Types, Flow, Closes
  PROVE  /\ pc = "run" /\ pc' = "closing" /\ data' = <<>> /\ waiting' = "close"
         /\ waiting \in {"read", "write"}
         /\ UNCHANGED <<job, step, conn, result, provisioned>>
         /\ (job = "provision" /\ step = 5) \/ (job = "writeBack" /\ step = 1)
         /\ stream # <<>> /\ Head(stream).cmd # "sync" /\ stream' = Tail(stream)
         /\ inbox' = Append(inbox, [conn |-> conn, cmd |-> "close"])
         /\ answers' = answers \cup {IF Head(stream).conn = conn THEN "own" ELSE "stale"}
         /\ Moved(1, 1, conn, "close")
         /\ UNCHANGED <<exists, guestFile, readPos, overwrite, hostFile, temp, skippedEmpty>>
<1>1. /\ pc = "run" /\ pc' = "closing" /\ data' = <<>> /\ waiting' = "close"
      /\ waiting \in {"read", "write"}
      /\ UNCHANGED <<job, step, conn, result, provisioned>>
      /\ stream # <<>> /\ Head(stream).cmd # "sync" /\ stream' = Tail(stream)
      /\ inbox' = Append(inbox, [conn |-> conn, cmd |-> "close"])
      /\ answers' = answers \cup {IF Head(stream).conn = conn THEN "own" ELSE "stale"}
  BY DEF Closes, Receives, ClosesAfter, Send
<1>2. (job = "provision" /\ step = 5) \/ (job = "writeBack" /\ step = 1)
  <2>1. job \in Jobs /\ step \in Nat /\ step < Len(Program(job)) /\ waiting = Program(job)[step + 1]
    BY <1>1 DEF Types, Flow
  <2> QED
    BY <1>1, <2>1, ProgramCommands
<1>3. Moved(1, 1, conn, "close")
  <2>1. SubSeq(stream, 1 + 1, Len(stream)) = Tail(stream) /\ 1 \in 0 .. Len(stream)
    BY <1>1 DEF Types
  <2> QED
    BY <1>1, <2>1, WireMoves
<1>4. UNCHANGED <<exists, guestFile, readPos, overwrite, hostFile, temp, skippedEmpty>>
  BY DEF Closes, guest, host
<1> QED
  BY <1>1, <1>2, <1>3, <1>4

\* What a suspend and a resume leave.
LEMMA ResumeFacts ==
  ASSUME Types, Resume
  PROVE  /\ pc # "ended" /\ job # "provision" /\ job # "writeBack"
         /\ job' = "none" /\ pc' = "idle" /\ step' = 0 /\ data' = <<>> /\ result' = "none"
         /\ provisioned' = TRUE /\ waiting' = "none" /\ answers' = {} /\ conn' = conn
         /\ stream' \in Seq(Replies) /\ inbox' \in Seq(Requests)
         /\ \E d \in 0 .. Len(stream) : Moved(d, 0, conn, "none")
         /\ UNCHANGED <<exists, guestFile, readPos, overwrite, hostFile, temp>>
         /\ skippedEmpty => skippedEmpty'
         /\ exists /\ guestFile = <<>> => skippedEmpty'
         /\ skippedEmpty' \in BOOLEAN
<1>1. /\ pc # "ended" /\ job # "provision" /\ job # "writeBack"
      /\ job' = "none" /\ pc' = "idle" /\ step' = 0 /\ data' = <<>> /\ result' = "none"
      /\ provisioned' = TRUE /\ Disconnect(stream)
  BY DEF Resume
<1>2. Unread(stream)
  BY DEF Unread
<1>3. /\ waiting' = "none" /\ answers' = {} /\ conn' = conn
      /\ stream' \in Seq(Replies) /\ inbox' \in Seq(Requests)
  BY <1>1, <1>2, DisconnectTypes
<1>4. \E d \in 0 .. Len(stream) : Moved(d, 0, conn, "none")
  BY <1>1, WireCut
<1>5. UNCHANGED <<exists, guestFile, readPos, overwrite, hostFile, temp>>
  BY DEF Resume, guest
<1>6. /\ skippedEmpty => skippedEmpty'
      /\ exists /\ guestFile = <<>> => skippedEmpty'
      /\ skippedEmpty' \in BOOLEAN
  <2>1. skippedEmpty' = (skippedEmpty \/ (exists /\ guestFile = <<>>))
    BY DEF Resume
  <2>2. skippedEmpty \in BOOLEAN /\ exists \in BOOLEAN
    BY DEF Types
  <2> QED
    BY <2>1, <2>2
<1> QED
  BY <1>1, <1>3, <1>4, <1>5, <1>6

\* Every step keeps Types.
LEMMA TypesKept ==
  ASSUME Types, Flow, [Next]_vars
  PROVE  Types'
<1>t. /\ stream \in Seq(Replies) /\ inbox \in Seq(Requests) /\ data \in Seq(Pieces)
      /\ conn \in Nat /\ step \in Nat
  BY DEF Types
<1>1. CASE AgentAnswers
  <2>1. stream' \in Seq(Replies) /\ inbox' \in Seq(Requests)
    <3>1. /\ inbox # <<>> /\ inbox' = Tail(inbox) /\ stream' = Append(stream, Reply)
          /\ Reply \in Replies
      BY <1>1, AgentCases
    <3> QED
      BY <1>t, <3>1
  <2>2. guestFile' \in {<<>>, File("host"), File("edit")}
    BY <1>1, AgentCases DEF Types, Writes
  <2>3. exists' \in BOOLEAN
    BY <1>1 DEF AgentAnswers
  <2>4. readPos' \in Nat /\ UNCHANGED client /\ UNCHANGED host
    BY <1>1, AgentCases
  <2> QED
    BY <2>1, <2>2, <2>3, <2>4 DEF Types, client, host
<1>2. CASE GuestEdits
  BY <1>2 DEF GuestEdits, Types, client, channel, host
<1>3. CASE \E j \in Jobs : Begin(j)
  <2>1. PICK j \in Jobs : Begin(j)
    BY <1>3
  <2>2. job' \in Jobs /\ pc' = "dial" /\ result' = "none" /\ step' \in Nat
    BY <2>1 DEF Begin
  <2>3. /\ UNCHANGED <<conn, waiting, data, provisioned, answers>>
        /\ UNCHANGED channel /\ UNCHANGED guest /\ UNCHANGED host
    BY <2>1 DEF Begin
  <2> QED
    BY <2>2, <2>3 DEF Types, channel, guest, host
<1>4. CASE Dial
  <2>1. /\ conn' = conn + 1 /\ pc' = "sync" /\ waiting' = "sync"
        /\ inbox' = Append(inbox, [conn |-> conn', cmd |-> "sync"])
    BY <1>4 DEF Dial, Send
  <2>2. [conn |-> conn', cmd |-> "sync"] \in Requests
    BY <1>t, <2>1 DEF Requests, Commands
  <2>3. inbox' \in Seq(Requests) /\ conn' \in Nat /\ waiting' \in Commands
    BY <1>t, <2>1, <2>2 DEF Commands
  <2>4. /\ UNCHANGED <<job, step, data, result, provisioned, answers, stream>>
        /\ UNCHANGED guest /\ UNCHANGED host
    BY <1>4 DEF Dial
  <2> QED
    BY <2>1, <2>3, <2>4 DEF Types, guest, host
<1>5. CASE Redials
  <2>1. PICK u : Unread(u) /\ Disconnect(u)
    BY <1>5 DEF Redials
  <2>2. /\ stream' \in Seq(Replies) /\ inbox' \in Seq(Requests)
        /\ waiting' = "none" /\ answers' = {} /\ conn' = conn
    BY <2>1, DisconnectTypes
  <2> QED
    BY <1>5, <2>2 DEF Redials, Types, guest, host
<1>6. CASE Quits
  <2>1. PICK o \in {"ok", "failed"} : \E u : Unread(u) /\ Finish(o, u)
    BY <1>6 DEF Quits
  <2>2. PICK u : Unread(u) /\ Finish(o, u)
    BY <2>1
  <2>3. Disconnect(u)
    BY <2>2 DEF Finish
  <2>4. /\ stream' \in Seq(Replies) /\ inbox' \in Seq(Requests)
        /\ waiting' = "none" /\ answers' = {} /\ conn' = conn
    BY <2>2, <2>3, DisconnectTypes
  <2>5. /\ job' = "none" /\ step' = 0 /\ data' \in Seq(Pieces) /\ pc' \in {"ended", "idle"}
        /\ result' \in {"ok", "failed"} /\ provisioned' \in BOOLEAN
    BY <2>2 DEF Finish
  <2>6. hostFile' \in Seq(Pieces) /\ temp' \in Seq(Pieces) /\ skippedEmpty' \in BOOLEAN
    <3>1. hostFile \in Seq(Pieces) /\ temp \in Seq(Pieces) /\ <<>> \in Seq(Pieces)
      BY DEF Types
    <3>2. /\ hostFile' = hostFile \/ hostFile' = data
          /\ temp' = temp \/ temp' = <<>>
          /\ skippedEmpty' \in BOOLEAN
      BY <1>6 DEF Quits
    <3> QED
      BY <1>t, <3>1, <3>2
  <2>7. UNCHANGED <<exists, guestFile, readPos, overwrite>>
    BY <1>6 DEF Quits, guest
  <2> QED
    BY <2>4, <2>5, <2>6, <2>7 DEF Types
<1>7. CASE Synchronize
  <2>1. stream' \in Seq(Replies)
    BY <1>7, <1>t DEF Synchronize
  <2>2. inbox' \in Seq(Requests) /\ waiting' \in Commands \cup {"none"} /\ pc' \in {"sync", "probe"}
    <3>1. [conn |-> conn, cmd |-> "ping"] \in Requests
      BY <1>t DEF Requests, Commands
    <3>2. CASE pc' = "probe" /\ Send(conn, "ping")
      BY <1>t, <3>1, <3>2 DEF Send, Commands
    <3>3. CASE UNCHANGED <<pc, waiting, inbox>>
      BY <1>7, <3>3 DEF Synchronize, Types
    <3> QED
      BY <1>7, <3>2, <3>3 DEF Synchronize
  <2>3. /\ UNCHANGED <<job, step, conn, data, result, provisioned, answers>>
        /\ UNCHANGED guest /\ UNCHANGED host
    BY <1>7 DEF Synchronize
  <2> QED
    BY <2>1, <2>2, <2>3 DEF Types, guest, host
<1>8. CASE Takes
  <2>1. stream # <<>> /\ stream' = Tail(stream) /\ inbox' = inbox
    BY <1>8 DEF Takes
  <2>2. stream' \in Seq(Replies) /\ Head(stream) \in Replies
    BY <1>t, <2>1
  <2>3. Head(stream).data \in Seq(Pieces)
    BY <2>2 DEF Replies
  <2>4. data' = data \/ data' = data \o Head(stream).data
    BY <1>8, TakeCases
  <2>5. data' \in Seq(Pieces)
    <3>1. CASE data' = data
      BY <1>t, <3>1
    <3>2. CASE data' = data \o Head(stream).data
      <4> DEFINE more == Head(stream).data
      <4>1. more \in Seq(Pieces) /\ data' = data \o more
        BY <2>3, <3>2
      <4> HIDE DEF more
      <4> QED
        BY <1>t, <4>1
    <3> QED
      BY <2>4, <3>1, <3>2
  <2>6. waiting' = "none" /\ pc' \in {"run", "decide"} /\ step' \in Nat
    BY <1>8, <1>t, TakeCases
  <2>7. answers' \subseteq {"own", "stale"}
    BY <1>8 DEF Takes, Types
  <2>8. UNCHANGED <<job, conn, result, provisioned>> /\ UNCHANGED guest /\ UNCHANGED host
    BY <1>8 DEF Takes
  <2> QED
    BY <2>1, <2>2, <2>5, <2>6, <2>7, <2>8 DEF Types, guest, host
<1>9. CASE RunSends
  <2>1. /\ waiting' = Program(job)[step + 1] /\ pc = "run" /\ step < Len(Program(job))
        /\ inbox' = Append(inbox, [conn |-> conn, cmd |-> Program(job)[step + 1]])
    BY <1>9 DEF RunSends, Send
  <2>2. job \in Jobs
    BY <2>1 DEF Types, Flow
  <2>3. waiting' \in Commands
    BY <1>t, <2>1, <2>2, ProgramCommands
  <2>4. [conn |-> conn, cmd |-> waiting'] \in Requests
    BY <1>t, <2>3 DEF Requests
  <2>5. inbox' \in Seq(Requests)
    BY <1>t, <2>1, <2>4
  <2>6. /\ UNCHANGED <<job, pc, step, conn, data, result, provisioned, answers, stream>>
        /\ UNCHANGED guest /\ UNCHANGED host
    BY <1>9 DEF RunSends
  <2> QED
    BY <2>3, <2>5, <2>6 DEF Types, guest, host
<1>10. CASE Proceeds
  BY <1>10 DEF Proceeds, Types, channel, guest, host
<1>11. CASE WriteHost
  <2>1. temp' = SubSeq(data, 1, Len(temp) + 1) /\ hostFile' = hostFile /\ Len(temp) < Len(data)
    BY <1>11 DEF WriteHost, WriteTemp
  <2>2. Len(temp) + 1 \in Nat /\ Len(temp) + 1 <= Len(data)
    BY <1>t, <2>1 DEF Types
  <2>3. temp' \in Seq(Pieces)
    BY <1>t, <2>1, <2>2
  <2>4. /\ UNCHANGED client /\ UNCHANGED channel /\ UNCHANGED guest
        /\ UNCHANGED <<overwrite, skippedEmpty>>
    BY <1>11 DEF WriteHost
  <2> QED
    BY <2>1, <2>3, <2>4 DEF Types, client, channel, guest
<1>12. CASE Relaunch
  <2>1. /\ inbox' \in Seq(Requests) /\ stream' \in Seq(Replies)
        /\ data' \in Seq(Pieces) /\ temp' \in Seq(Pieces)
    BY <1>12 DEF Relaunch
  <2>2. UNCHANGED guest /\ UNCHANGED <<overwrite, hostFile, skippedEmpty>>
    BY <1>12 DEF Relaunch
  <2>3. /\ job' = "none" /\ pc' = "idle" /\ step' = 0 /\ waiting' = "none"
        /\ conn' = 0 /\ result' = "none" /\ provisioned' = FALSE /\ answers' = {}
    BY <1>12 DEF Relaunch
  <2> QED
    BY <2>1, <2>2, <2>3 DEF Types, guest
<1>13. CASE UNCHANGED vars
  BY <1>13 DEF vars, Types, client, channel, guest, host
<1>14. CASE Closes
  <2>1. /\ pc' = "closing" /\ data' = <<>> /\ waiting' = "close"
        /\ UNCHANGED <<job, step, conn, result, provisioned>>
        /\ stream # <<>> /\ stream' = Tail(stream)
        /\ inbox' = Append(inbox, [conn |-> conn, cmd |-> "close"])
        /\ answers' = answers \cup {IF Head(stream).conn = conn THEN "own" ELSE "stale"}
        /\ UNCHANGED <<exists, guestFile, readPos, overwrite, hostFile, temp, skippedEmpty>>
    BY <1>14, CloseFacts
  <2>2. [conn |-> conn, cmd |-> "close"] \in Requests
    BY <1>t DEF Requests, Commands
  <2>3. stream' \in Seq(Replies) /\ inbox' \in Seq(Requests) /\ data' \in Seq(Pieces)
    BY <1>t, <2>1, <2>2
  <2>4. answers' \subseteq {"own", "stale"}
    BY <2>1 DEF Types
  <2>5. waiting' \in Commands
    BY <2>1 DEF Commands
  <2> QED
    BY <2>1, <2>3, <2>4, <2>5 DEF Types
<1>15. CASE Resume
  <2>1. data' \in Seq(Pieces) /\ provisioned' \in BOOLEAN /\ skippedEmpty' \in BOOLEAN
    BY <1>15, ResumeFacts
  <2>2. /\ job' = "none" /\ pc' = "idle" /\ step' = 0 /\ result' = "none"
        /\ waiting' = "none" /\ answers' = {} /\ conn' = conn
        /\ stream' \in Seq(Replies) /\ inbox' \in Seq(Requests)
        /\ UNCHANGED <<exists, guestFile, readPos, overwrite, hostFile, temp>>
    BY <1>15, ResumeFacts
  <2> QED
    BY <2>1, <2>2 DEF Types
<1> QED
  BY <1>1, <1>2, <1>3, <1>4, <1>5, <1>6, <1>7, <1>8, <1>9, <1>10, <1>11, <1>12, <1>13, <1>14,
     <1>15, StepCases

-----------------------------------------------------------------------------
(* Flow *)

\* What the end of a job leaves of the client.
LEMMA QuitFacts ==
  ASSUME Types, Quits
  PROVE  /\ job' = "none" /\ step' = 0 /\ data' = <<>> /\ waiting' = "none" /\ answers' = {}
         /\ conn' = conn /\ inbox' = inbox
         /\ pc' \in {"idle", "ended"}
         /\ provisioned => provisioned'
         /\ provisioned' /\ ~provisioned =>
              /\ job = "provision"
              /\ \/ pc = "run" /\ step >= 9
                 \/ pc = "decide" /\ step = 2 /\ (guestFile = <<>> => skippedEmpty')
         /\ job = "provision" => provisioned' \/ pc' = "ended"
         /\ \E d \in 0 .. Len(stream) : Moved(d, 0, conn, "none")
<1>1. PICK o \in {"ok", "failed"} :
        /\ \E u : Unread(u) /\ Finish(o, u)
        /\ o = "ok" /\ job = "provision" =>
             \/ pc = "run" /\ step >= 9
             \/ pc = "decide" /\ step = 2 /\ (guestFile = <<>> => skippedEmpty')
  BY DEF Quits
<1>2. PICK u : Unread(u) /\ Finish(o, u)
  BY <1>1
<1>3. Disconnect(u)
  BY <1>2 DEF Finish
<1>4. \E d \in 0 .. Len(stream) : Moved(d, 0, conn, "none")
  BY <1>2, <1>3, WireCut DEF Unread
<1>5. waiting' = "none" /\ answers' = {} /\ conn' = conn /\ inbox' = inbox
  BY <1>3 DEF Disconnect
<1>6. /\ job' = "none" /\ step' = 0 /\ data' = <<>>
      /\ pc' = IF job = "provision" /\ o = "failed" THEN "ended" ELSE "idle"
      /\ provisioned' = (provisioned \/ (job = "provision" /\ o = "ok"))
  BY <1>2 DEF Finish
<1> QED
  BY <1>1, <1>4, <1>5, <1>6

\* What a redial leaves.
LEMMA RedialFacts ==
  ASSUME Types, Redials
  PROVE  /\ waiting' = "none" /\ answers' = {} /\ conn' = conn /\ inbox' = inbox
         /\ \E d \in 0 .. Len(stream) : Moved(d, 0, conn, "none")
<1>1. PICK u : Unread(u) /\ Disconnect(u)
  BY DEF Redials
<1>2. \E d \in 0 .. Len(stream) : Moved(d, 0, conn, "none")
  BY <1>1, WireCut DEF Unread
<1> QED
  BY <1>1, <1>2 DEF Disconnect

\* Flow holds at first.
LEMMA FlowInitially == Init => Flow
BY DEF Init, Flow

\* Every step keeps Flow.
LEMMA FlowKept ==
  ASSUME Types, Flow, [Next]_vars
  PROVE  Flow'
<1>1. CASE AgentAnswers
  BY <1>1 DEF AgentAnswers, Flow, client
<1>2. CASE GuestEdits
  BY <1>2 DEF GuestEdits, Flow, client
<1>3. CASE \E j \in Jobs : Begin(j)
  <2>1. PICK j \in Jobs : Begin(j)
    BY <1>3
  <2>2. /\ job' = j /\ pc' = "dial" /\ waiting' = waiting /\ provisioned' = provisioned
        /\ pc = "idle"
        /\ step' = IF j = "provision" /\ overwrite THEN 2 ELSE 0
        /\ j = "provision" => ~provisioned
        /\ j = "writeBack" => provisioned
    BY <2>1 DEF Begin
  <2> QED
    BY <2>2 DEF Flow, Jobs
<1>4. CASE Dial
  BY <1>4 DEF Dial, Send, Flow
<1>5. CASE Redials
  <2>1. waiting' = "none"
    BY <1>5, RedialFacts
  <2> QED
    BY <1>5, <2>1 DEF Redials, Flow
<1>6. CASE Quits
  BY <1>6, QuitFacts DEF Flow
<1>7. CASE Synchronize
  <2>1. pc = "sync" /\ UNCHANGED <<job, step, provisioned>>
    BY <1>7 DEF Synchronize
  <2>2. \/ pc' = "probe" /\ waiting' = "ping"
        \/ pc' = pc /\ waiting' = waiting
    BY <1>7 DEF Synchronize, Send
  <2> QED
    BY <2>1, <2>2 DEF Flow
<1>8. CASE Takes
  <2>1. job' = job /\ provisioned' = provisioned /\ pc \in {"probe", "run"} /\ waiting # "none"
    BY <1>8 DEF Takes
  <2>2. step \in Nat /\ job \in Jobs
    BY <2>1 DEF Types, Flow
  <2>3. pc = "run" => step + 1 <= Len(Program(job))
    <3>1. Len(Program(job)) \in Nat
      BY <2>2, ProgramLengths DEF Jobs
    <3>2. pc = "run" => step < Len(Program(job))
      BY <2>1 DEF Flow
    <3> QED
      BY <2>2, <3>1, <3>2
  <2>4. pc = "probe" => step <= Len(Program(job))
    <3>1. pc = "probe" => step = 0 \/ (job = "provision" /\ step = 2)
      BY DEF Flow
    <3> DEFINE n == Len(Program(job))
    <3>2. n \in Nat /\ (job = "provision" => n = 9)
      BY <2>2, ProgramLengths DEF Jobs
    <3> HIDE DEF n
    <3>3. pc = "probe" => step <= n
      BY <2>2, <3>1, <3>2
    <3> QED
      BY <3>3 DEF n
  <2>5. /\ waiting' = "none" /\ pc' \in {"run", "decide"}
        /\ pc' = "decide" => pc = "run" /\ step' = step + 1 /\ job \in {"provision", "exec", "shutdownExec"}
        /\ pc = "probe" => step' = step
        /\ pc = "run" => step' = step \/ step' = step + 1
    BY <1>8, TakeCases
  <2>6. step' <= Len(Program(job))
    <3>1. pc = "run" => step <= Len(Program(job))
      BY DEF Flow
    <3> QED
      BY <2>1, <2>3, <2>4, <2>5, <3>1
  <2> QED
    BY <2>1, <2>5, <2>6 DEF Flow
<1>9. CASE RunSends
  BY <1>9 DEF RunSends, Send, Flow
<1>10. CASE Proceeds
  <2>1. UNCHANGED <<job, step, waiting, provisioned>>
    BY <1>10 DEF Proceeds
  <2>2. CASE pc = "decide" /\ pc' = "run"
    BY <2>1, <2>2 DEF Flow
  <2>3. CASE pc = "run" /\ waiting = "none" /\ ~(step < Len(Program(job))) /\ job = "writeBack" /\ pc' = "host"
    <3>1. step <= 3 /\ ~(step < 3)
      BY <2>3, ProgramLengths DEF Flow
    <3>2. step \in Nat
      BY DEF Types
    <3>3. step = 3
      BY <3>1, <3>2
    <3> QED
      BY <2>1, <2>3, <3>3 DEF Flow
  <2> QED
    BY <1>10, <2>2, <2>3 DEF Proceeds
<1>11. CASE WriteHost
  BY <1>11 DEF WriteHost, Flow, client
<1>12. CASE Relaunch
  BY <1>12 DEF Relaunch, Flow
<1>13. CASE UNCHANGED vars
  BY <1>13 DEF vars, client, Flow
<1>14. CASE Closes
  BY <1>14, CloseFacts DEF Flow
<1>15. CASE Resume
  BY <1>15, ResumeFacts DEF Flow
<1> QED
  BY <1>1, <1>2, <1>3, <1>4, <1>5, <1>6, <1>7, <1>8, <1>9, <1>10, <1>11, <1>12, <1>13, <1>14,
     <1>15, StepCases

-----------------------------------------------------------------------------
(* Stale answers *)

\* Nothing on the wire is of a connection still to come, whatever is taken and
\* sent.
LEMMA OlderMoved ==
  ASSUME Types, Types', NEW d, NEW e, NEW x, Moved(d, e, conn', x), conn <= conn',
         \A i \in 1 .. Size : Wire[i].conn <= conn
  PROVE  \A i \in 1 .. Size' : Wire'[i].conn <= conn'
<1>1. /\ Size \in Nat /\ d \in Nat /\ d <= Size /\ Size' = Size - d + e /\ e \in {0, 1}
      /\ \A i \in 1 .. Size - d : Wire'[i] = Wire[i + d]
      /\ e = 1 => Wire'[Size'].conn = conn'
  BY WireTypes DEF Moved
<1>2. \A i \in 1 .. Size : Wire[i].conn \in Nat
  BY WireTypes
<1>3. conn \in Nat /\ conn' \in Nat
  BY DEF Types
<1> TAKE i \in 1 .. Size'
<1>4. CASE i <= Size - d
  <2>1. i \in 1 .. Size - d /\ i + d \in 1 .. Size
    BY <1>1, <1>4
  <2>2. Wire'[i] = Wire[i + d] /\ Wire[i + d].conn <= conn /\ Wire[i + d].conn \in Nat
    BY <1>1, <1>2, <2>1
  <2> QED
    BY <1>3, <2>2
<1>5. CASE ~(i <= Size - d)
  <2>1. e = 1 /\ i = Size'
    BY <1>1, <1>5
  <2> QED
    BY <1>1, <1>3, <2>1
<1> QED
  BY <1>4, <1>5

\* The connection's own synchronization stays ahead until it is taken.
LEMMA SyncAheadMoved ==
  ASSUME Types, NEW d, NEW e, NEW x, Moved(d, e, conn, x), conn' = conn, x # "sync",
         SyncAhead,
         \A i \in 1 .. d : Wire[i].conn # conn \/ Wire[i].cmd # "sync"
  PROVE  SyncAhead'
<1>1. /\ Size \in Nat /\ d \in Nat /\ d <= Size /\ Size' = Size - d + e /\ e \in {0, 1}
      /\ \A i \in 1 .. Size - d : Wire'[i] = Wire[i + d]
      /\ e = 1 => Wire'[Size'] = [conn |-> conn, cmd |-> x]
  BY WireTypes DEF Moved
<1>2. PICK s \in 1 .. Size :
        /\ Wire[s].conn = conn /\ Wire[s].cmd = "sync"
        /\ \A j \in 1 .. Size : j < s => Wire[j].conn # conn
        /\ \A j \in 1 .. Size : j > s => Wire[j].conn = conn /\ Wire[j].cmd # "sync"
  BY DEF SyncAhead
<1>3. s > d
  BY <1>1, <1>2
<1> DEFINE t == s - d
<1>4. t \in 1 .. Size' /\ t \in 1 .. Size - d /\ t + d = s
  BY <1>1, <1>2, <1>3
<1> HIDE DEF t
<1>5. Wire'[t].conn = conn /\ Wire'[t].cmd = "sync"
  BY <1>1, <1>2, <1>4
<1>6. ASSUME NEW j \in 1 .. Size', j < t PROVE Wire'[j].conn # conn
  <2>1. j \in 1 .. Size - d /\ j + d \in 1 .. Size /\ j + d < s
    BY <1>1, <1>4, <1>6
  <2> QED
    BY <1>1, <1>2, <2>1
<1>7. ASSUME NEW j \in 1 .. Size', j > t PROVE Wire'[j].conn = conn /\ Wire'[j].cmd # "sync"
  <2>1. CASE j <= Size - d
    <3>1. j \in 1 .. Size - d /\ j + d \in 1 .. Size /\ j + d > s
      BY <1>1, <1>4, <1>7, <2>1
    <3> QED
      BY <1>1, <1>2, <3>1
  <2>2. CASE ~(j <= Size - d)
    <3>1. e = 1 /\ j = Size'
      BY <1>1, <2>2
    <3> QED
      BY <1>1, <3>1
  <2> QED
    BY <2>1, <2>2
<1> QED
  BY <1>4, <1>5, <1>6, <1>7 DEF SyncAhead

\* A clean wire stays clean, and the one behind the own synchronization is.
LEMMA CleanMoved ==
  ASSUME Types, NEW d, NEW e, NEW x, Moved(d, e, conn, x), conn' = conn, x # "sync",
         \A i \in 1 .. Size : i > d => Wire[i].conn = conn /\ Wire[i].cmd # "sync"
  PROVE  Clean'
<1>1. /\ Size \in Nat /\ d \in Nat /\ d <= Size /\ Size' = Size - d + e /\ e \in {0, 1}
      /\ \A i \in 1 .. Size - d : Wire'[i] = Wire[i + d]
      /\ e = 1 => Wire'[Size'] = [conn |-> conn, cmd |-> x]
  BY WireTypes DEF Moved
<1> SUFFICES ASSUME NEW j \in 1 .. Size' PROVE Wire'[j].conn = conn /\ Wire'[j].cmd # "sync"
  BY DEF Clean
<1>2. CASE j <= Size - d
  <2>1. j \in 1 .. Size - d /\ j + d \in 1 .. Size /\ j + d > d
    BY <1>1, <1>2
  <2> QED
    BY <1>1, <2>1
<1>3. CASE ~(j <= Size - d)
  <2>1. e = 1 /\ j = Size'
    BY <1>1, <1>3
  <2> QED
    BY <1>1, <2>1
<1> QED
  BY <1>2, <1>3

\* Without traffic the wire is the same.
LEMMA WireSame ==
  ASSUME stream' = stream, inbox' = inbox
  PROVE  Size' = Size /\ Wire' = Wire
BY DEF Size, Wire

\* Without traffic Parted follows from the place the client is at.
LEMMA PartedSame ==
  ASSUME Parted, Size' = Size, Wire' = Wire, conn' = conn, answers' = answers,
         \/ pc' = pc
         \/ pc \in {"idle", "dial", "ended"} /\ pc' \in {"idle", "dial", "ended"}
         \/ pc \in {"run", "decide"} /\ pc' \in {"run", "host"}
  PROVE  Parted'
<1>1. (Clean' <=> Clean) /\ (SyncAhead' <=> SyncAhead)
  BY DEF Clean, SyncAhead
<1> QED
  BY <1>1 DEF Parted

\* The agent leaves the wire as it is.
LEMMA AgentKeepsWire ==
  ASSUME Types, AgentAnswers
  PROVE  /\ Size' = Size /\ Wire' = Wire
         /\ Len(stream') = Len(stream) + 1 /\ Len(stream) + 1 <= Size
         /\ \A i \in 1 .. Len(stream) : stream'[i] = stream[i]
         /\ stream'[Len(stream) + 1] = Reply
         /\ Wire[Len(stream) + 1].cmd = Reply.cmd
         /\ Reply.cmd = Head(inbox).cmd
<1>1. /\ inbox # <<>> /\ inbox' = Tail(inbox) /\ stream' = Append(stream, Reply)
      /\ Reply \in Replies
  BY AgentCases
<1>2. Reply.conn = Head(inbox).conn /\ Reply.cmd = Head(inbox).cmd
  BY DEF Reply
<1> QED
  BY <1>1, <1>2, WireAnswered

\* Parted holds at first.
LEMMA PartedInitially == Init => Parted
<1> SUFFICES ASSUME Init PROVE Parted
  OBVIOUS
<1>1. Size = 0
  BY DEF Init, Size
<1> QED
  BY <1>1 DEF Init, Parted

\* Every step keeps Parted.
LEMMA PartedKept ==
  ASSUME Types, Types', Flow, Parted, [Next]_vars
  PROVE  Parted'
<1>w. /\ Len(stream) \in Nat /\ Size \in Nat /\ Len(stream) <= Size
      /\ \A i \in 1 .. Size : Wire[i].conn \in Nat
      /\ \A i \in 1 .. Len(stream) :
           Wire[i].conn = stream[i].conn /\ Wire[i].cmd = stream[i].cmd
      /\ conn \in Nat
  BY WireTypes DEF Types
<1>o. \A i \in 1 .. Size : Wire[i].conn <= conn
  BY DEF Parted
<1>1. CASE AgentAnswers
  <2>1. UNCHANGED <<conn, answers, pc>>
    BY <1>1 DEF AgentAnswers, client
  <2> QED
    BY <1>1, <2>1, AgentKeepsWire, PartedSame
<1>2. CASE GuestEdits
  BY <1>2, WireSame, PartedSame DEF GuestEdits, client, channel
<1>3. CASE \E j \in Jobs : Begin(j)
  <2>1. PICK j \in Jobs : Begin(j)
    BY <1>3
  <2>2. UNCHANGED <<conn, answers>> /\ UNCHANGED channel /\ pc = "idle" /\ pc' = "dial"
    BY <2>1 DEF Begin
  <2> QED
    BY <2>2, WireSame, PartedSame DEF channel
<1>4. CASE Dial
  <2>1. /\ conn' = conn + 1 /\ pc = "dial" /\ pc' = "sync" /\ stream' = stream /\ answers' = answers
        /\ inbox' = Append(inbox, [conn |-> conn', cmd |-> "sync"])
    BY <1>4 DEF Dial, Send
  <2>2. Moved(0, 1, conn', "sync")
    BY <2>1, WireSends
  <2>3. \A i \in 1 .. Size' : Wire'[i].conn <= conn'
    BY <1>o, <1>w, <2>1, <2>2, OlderMoved
  <2>4. SyncAhead'
    <3>1. /\ Size' = Size + 1 /\ Size' \in 1 .. Size'
          /\ Wire'[Size'].conn = conn' /\ Wire'[Size'].cmd = "sync"
      BY <1>w, <2>2 DEF Moved
    <3>2. \A i \in 1 .. Size - 0 : Wire'[i] = Wire[i + 0]
      BY <2>2 DEF Moved
    <3>3. ASSUME NEW j \in 1 .. Size', j < Size' PROVE Wire'[j].conn # conn'
      <4>1. j \in 1 .. Size /\ j \in 1 .. Size - 0 /\ j + 0 = j
        BY <1>w, <3>1, <3>3
      <4>2. Wire'[j] = Wire[j] /\ Wire[j].conn \in Nat /\ Wire[j].conn <= conn
        BY <1>o, <1>w, <3>2, <4>1
      <4> QED
        BY <1>w, <2>1, <4>2
    <3>4. \A j \in 1 .. Size' : ~(j > Size')
      BY <1>w, <3>1
    <3> QED
      BY <3>1, <3>3, <3>4 DEF SyncAhead
  <2>5. answers' = {}
    BY <2>1 DEF Parted
  <2> QED
    BY <2>1, <2>3, <2>4, <2>5 DEF Parted
<1>5. CASE Redials
  <2>1. PICK d \in 0 .. Len(stream) : Moved(d, 0, conn, "none")
    BY <1>5, RedialFacts
  <2>2. answers' = {} /\ conn' = conn /\ pc' = "dial"
    BY <1>5, RedialFacts DEF Redials
  <2>3. \A i \in 1 .. Size' : Wire'[i].conn <= conn'
    BY <1>o, <1>w, <2>1, <2>2, OlderMoved
  <2> QED
    BY <2>2, <2>3 DEF Parted
<1>6. CASE Quits
  <2>1. PICK d \in 0 .. Len(stream) : Moved(d, 0, conn, "none")
    BY <1>6, QuitFacts
  <2>2. answers' = {} /\ conn' = conn /\ pc' \in {"idle", "ended"}
    BY <1>6, QuitFacts
  <2>3. \A i \in 1 .. Size' : Wire'[i].conn <= conn'
    BY <1>o, <1>w, <2>1, <2>2, OlderMoved
  <2> QED
    BY <2>2, <2>3 DEF Parted
<1>7. CASE Synchronize
  <2>1. /\ pc = "sync" /\ stream # <<>> /\ stream' = Tail(stream)
        /\ UNCHANGED <<conn, answers>>
    BY <1>7 DEF Synchronize
  <2>2. answers' = {} /\ SyncAhead
    BY <2>1 DEF Parted
  <2>3. /\ Len(stream) > 0 /\ 1 \in 1 .. Len(stream) /\ 1 \in 1 .. Size /\ Head(stream) = stream[1]
    BY <1>w, <2>1 DEF Types
  <2>4. Wire[1].cmd = Head(stream).cmd
    BY <1>w, <2>3
  <2>5. CASE Head(stream).cmd # "sync"
    <3>1. inbox' = inbox /\ pc' = pc
      BY <1>7, <2>5 DEF Synchronize
    <3>2. Moved(1, 0, conn, "none")
      BY <2>1, <3>1, WireTaken
    <3>3. \A i \in 1 .. 1 : Wire[i].conn # conn \/ Wire[i].cmd # "sync"
      BY <2>4, <2>5
    <3>4. SyncAhead'
      BY <2>1, <2>2, <3>2, <3>3, SyncAheadMoved
    <3>5. \A i \in 1 .. Size' : Wire'[i].conn <= conn'
      BY <1>o, <1>w, <2>1, <3>2, OlderMoved
    <3> QED
      BY <2>1, <2>2, <3>1, <3>4, <3>5 DEF Parted
  <2>6. CASE Head(stream).cmd = "sync"
    <3>1. pc' = "probe" /\ inbox' = Append(inbox, [conn |-> conn, cmd |-> "ping"])
      BY <1>7, <2>6 DEF Synchronize, Send
    <3>2. Moved(1, 1, conn, "ping")
      <4>1. SubSeq(stream, 1 + 1, Len(stream)) = Tail(stream)
        BY <2>1 DEF Types
      <4> QED
        BY <2>1, <2>3, <3>1, <4>1, WireMoves
    <3>3. \A i \in 1 .. Size' : Wire'[i].conn <= conn'
      BY <1>o, <1>w, <2>1, <3>2, OlderMoved
    <3>4. CASE Wire[1].conn = conn
      <4>1. \A i \in 1 .. Size : i > 1 => Wire[i].conn = conn /\ Wire[i].cmd # "sync"
        <5>1. PICK s \in 1 .. Size :
                /\ \A j \in 1 .. Size : j < s => Wire[j].conn # conn
                /\ \A j \in 1 .. Size : j > s => Wire[j].conn = conn /\ Wire[j].cmd # "sync"
          BY <2>2 DEF SyncAhead
        <5>2. s = 1
          BY <1>w, <2>3, <3>4, <5>1
        <5> QED
          BY <5>1, <5>2
      <4>2. Clean'
        BY <2>1, <3>2, <4>1, CleanMoved
      <4> QED
        BY <2>2, <3>1, <3>3, <4>2 DEF Parted
    <3>5. CASE Wire[1].conn # conn
      <4>1. \A i \in 1 .. 1 : Wire[i].conn # conn \/ Wire[i].cmd # "sync"
        BY <3>5
      <4>2. SyncAhead'
        BY <2>1, <2>2, <3>2, <4>1, SyncAheadMoved
      <4> QED
        BY <2>2, <3>1, <3>3, <4>2 DEF Parted
    <3> QED
      BY <3>4, <3>5
  <2> QED
    BY <2>5, <2>6
<1>8. CASE Takes
  <2>1. /\ pc \in {"probe", "run"} /\ stream # <<>> /\ stream' = Tail(stream) /\ inbox' = inbox
        /\ Head(stream).cmd # "sync" /\ conn' = conn
        /\ answers' = answers \cup {IF Head(stream).conn = conn THEN "own" ELSE "stale"}
    BY <1>8 DEF Takes
  <2>2. pc' \in {"run", "decide"}
    BY <1>8, TakeCases
  <2>3. /\ Len(stream) > 0 /\ 1 \in 1 .. Len(stream) /\ 1 \in 1 .. Size /\ Head(stream) = stream[1]
    BY <1>w, <2>1 DEF Types
  <2>4. Wire[1].cmd = Head(stream).cmd /\ Wire[1].conn = Head(stream).conn
    BY <1>w, <2>3
  <2>5. Moved(1, 0, conn, "none")
    BY <2>1, WireTaken
  <2>6. \A i \in 1 .. Size' : Wire'[i].conn <= conn'
    BY <1>o, <1>w, <2>1, <2>5, OlderMoved
  <2>7. CASE Clean /\ answers \subseteq {"own"}
    <3>1. Clean'
      BY <2>1, <2>5, <2>7, CleanMoved DEF Clean
    <3>2. answers' \subseteq {"own"}
      BY <2>1, <2>3, <2>4, <2>7 DEF Clean
    <3> QED
      BY <2>2, <2>6, <3>1, <3>2 DEF Parted
  <2>8. CASE SyncAhead /\ answers \subseteq {"stale"}
    <3>1. Wire[1].conn # conn
      <4>1. PICK s \in 1 .. Size :
              /\ Wire[s].cmd = "sync"
              /\ \A j \in 1 .. Size : j < s => Wire[j].conn # conn
        BY <2>8 DEF SyncAhead
      <4>2. s # 1
        BY <2>1, <2>4, <4>1
      <4>3. 1 < s
        BY <1>w, <4>1, <4>2
      <4> QED
        BY <2>3, <4>1, <4>3
    <3>2. SyncAhead'
      <4>1. \A i \in 1 .. 1 : Wire[i].conn # conn \/ Wire[i].cmd # "sync"
        BY <3>1
      <4> QED
        BY <2>1, <2>5, <2>8, <4>1, SyncAheadMoved
    <3>3. answers' \subseteq {"stale"}
      BY <2>1, <2>4, <2>8, <3>1
    <3> QED
      BY <2>2, <2>6, <3>2, <3>3 DEF Parted
  <2> QED
    BY <2>1, <2>7, <2>8 DEF Parted
<1>9. CASE RunSends
  <2>1. /\ pc = "run" /\ step < Len(Program(job)) /\ stream' = stream
        /\ inbox' = Append(inbox, [conn |-> conn, cmd |-> Program(job)[step + 1]])
        /\ UNCHANGED <<pc, conn, answers>>
    BY <1>9 DEF RunSends, Send
  <2> DEFINE x == Program(job)[step + 1]
  <2>2. x # "sync"
    <3>1. job \in Jobs /\ step \in Nat
      BY <2>1 DEF Types, Flow
    <3> QED
      BY <2>1, <3>1, ProgramCommands
  <2>3. Moved(0, 1, conn, x)
    BY <2>1, WireSends
  <2> HIDE DEF x
  <2>4. \A i \in 1 .. Size' : Wire'[i].conn <= conn'
    BY <1>o, <1>w, <2>1, <2>3, OlderMoved
  <2>5. CASE Clean /\ answers \subseteq {"own"}
    <3>1. Clean'
      BY <2>1, <2>2, <2>3, <2>5, CleanMoved DEF Clean
    <3> QED
      BY <2>1, <2>4, <2>5, <3>1 DEF Parted
  <2>6. CASE SyncAhead /\ answers \subseteq {"stale"}
    <3>1. \A i \in 1 .. 0 : Wire[i].conn # conn \/ Wire[i].cmd # "sync"
      OBVIOUS
    <3>2. SyncAhead'
      BY <2>1, <2>2, <2>3, <2>6, <3>1, SyncAheadMoved
    <3> QED
      BY <2>1, <2>4, <2>6, <3>2 DEF Parted
  <2> QED
    BY <2>1, <2>5, <2>6 DEF Parted
<1>10. CASE Proceeds
  <2>1. /\ UNCHANGED <<conn, answers>> /\ UNCHANGED channel
        /\ pc \in {"run", "decide"} /\ pc' \in {"run", "host"}
    BY <1>10 DEF Proceeds
  <2> QED
    BY <2>1, WireSame, PartedSame DEF channel
<1>11. CASE WriteHost
  BY <1>11, WireSame, PartedSame DEF WriteHost, client, channel
<1>12. CASE Relaunch
  <2>1. stream' = <<>> /\ inbox' = <<>> /\ pc' = "idle" /\ answers' = {}
    BY <1>12 DEF Relaunch
  <2>2. Size' = 0
    BY <2>1 DEF Size
  <2> QED
    BY <2>1, <2>2 DEF Parted
<1>13. CASE UNCHANGED vars
  BY <1>13, WireSame, PartedSame DEF vars, client, channel
<1>14. CASE Closes
  <2>1. /\ pc = "run" /\ stream # <<>> /\ Head(stream).cmd # "sync" /\ conn' = conn
        /\ pc' = "closing" /\ Moved(1, 1, conn, "close")
        /\ answers' = answers \cup {IF Head(stream).conn = conn THEN "own" ELSE "stale"}
    BY <1>14, CloseFacts
  <2>2. /\ Len(stream) > 0 /\ 1 \in 1 .. Len(stream) /\ 1 \in 1 .. Size /\ Head(stream) = stream[1]
    BY <1>w, <2>1 DEF Types
  <2>3. Wire[1].cmd = Head(stream).cmd /\ Wire[1].conn = Head(stream).conn
    BY <1>w, <2>2
  <2>4. \A i \in 1 .. Size' : Wire'[i].conn <= conn'
    BY <1>o, <1>w, <2>1, OlderMoved
  <2>5. CASE Clean /\ answers \subseteq {"own"}
    <3>1. Clean'
      BY <2>1, <2>5, CleanMoved DEF Clean
    <3>2. answers' \subseteq {"own"}
      BY <2>1, <2>2, <2>3, <2>5 DEF Clean
    <3> QED
      BY <2>1, <2>4, <3>1, <3>2 DEF Parted
  <2>6. CASE SyncAhead /\ answers \subseteq {"stale"}
    <3>1. Wire[1].conn # conn
      <4>1. PICK s \in 1 .. Size :
              /\ Wire[s].cmd = "sync"
              /\ \A j \in 1 .. Size : j < s => Wire[j].conn # conn
        BY <2>6 DEF SyncAhead
      <4>2. s # 1
        BY <2>1, <2>3, <4>1
      <4>3. 1 < s
        BY <1>w, <4>1, <4>2
      <4> QED
        BY <2>2, <4>1, <4>3
    <3>2. SyncAhead'
      <4>1. \A i \in 1 .. 1 : Wire[i].conn # conn \/ Wire[i].cmd # "sync"
        BY <3>1
      <4> QED
        BY <2>1, <2>6, <4>1, SyncAheadMoved
    <3>3. answers' \subseteq {"stale"}
      BY <2>1, <2>3, <2>6, <3>1
    <3> QED
      BY <2>1, <2>4, <3>2, <3>3 DEF Parted
  <2> QED
    BY <2>1, <2>5, <2>6 DEF Parted
<1>15. CASE Resume
  <2>1. PICK d \in 0 .. Len(stream) : Moved(d, 0, conn, "none")
    BY <1>15, ResumeFacts
  <2>2. answers' = {} /\ conn' = conn /\ pc' = "idle"
    BY <1>15, ResumeFacts
  <2>3. \A i \in 1 .. Size' : Wire'[i].conn <= conn'
    BY <1>o, <1>w, <2>1, <2>2, OlderMoved
  <2> QED
    BY <2>2, <2>3 DEF Parted
<1> QED
  BY <1>1, <1>2, <1>3, <1>4, <1>5, <1>6, <1>7, <1>8, <1>9, <1>10, <1>11, <1>12, <1>13, <1>14,
     <1>15, StepCases

-----------------------------------------------------------------------------
(* The guest file *)

\* Where an entry of the wire was before a step of the client.
LEMMA MovedFrom ==
  ASSUME Types, NEW d, NEW e, NEW c, NEW x, Moved(d, e, c, x), NEW i \in 1 .. Size'
  PROVE  \/ /\ i + d \in 1 .. Size /\ Wire'[i] = Wire[i + d]
            /\ i > Len(stream') => i + d > Len(stream)
            /\ i <= Len(stream') => i + d <= Len(stream) /\ stream'[i] = stream[i + d]
         \/ e = 1 /\ i = Size' /\ Wire'[i].cmd = x /\ i > Len(stream')
<1>1. /\ Size \in Nat /\ Len(stream) \in Nat /\ Len(stream) <= Size
      /\ d \in Nat /\ d <= Len(stream) /\ e \in {0, 1}
      /\ Len(stream') = Len(stream) - d /\ Size' = Size - d + e
  BY WireTypes DEF Moved
<1>2. /\ \A k \in 1 .. Size - d : Wire'[k] = Wire[k + d]
      /\ \A k \in 1 .. Len(stream) - d : stream'[k] = stream[k + d]
      /\ e = 1 => Wire'[Size'].cmd = x
  BY DEF Moved
<1> DEFINE b == Len(stream)  b2 == Len(stream')
<1>3. /\ b \in Nat /\ b <= Size /\ d <= b /\ b2 = b - d
  BY <1>1
<1> HIDE DEF b, b2
<1>4. CASE i <= Size - d
  <2>1. /\ i + d \in 1 .. Size /\ i \in 1 .. Size - d
        /\ i > b2 => i + d > b
        /\ i <= b2 => i + d <= b /\ i \in 1 .. b - d
    BY <1>1, <1>3, <1>4
  <2>2. Wire'[i] = Wire[i + d]
    BY <1>2, <2>1
  <2>3. i <= b2 => stream'[i] = stream[i + d]
    BY <1>2, <2>1 DEF b
  <2> QED
    BY <2>1, <2>2, <2>3 DEF b, b2
<1>5. CASE ~(i <= Size - d)
  <2>1. e = 1 /\ i = Size' /\ i > b2
    BY <1>1, <1>3, <1>5
  <2> QED
    BY <1>2, <2>1 DEF b2
<1> QED
  BY <1>4, <1>5

\* A step of the client that does not open the file keeps it settled.
LEMMA SettledMoved ==
  ASSUME Types, NEW d, NEW e, NEW c, NEW x, Moved(d, e, c, x), Settled,
         guestFile' = guestFile, exists' = exists, skippedEmpty => skippedEmpty',
         e = 1 => x # "open"
  PROVE  Settled'
<1>1. /\ Size \in Nat /\ Len(stream) \in Nat /\ Len(stream) <= Size
      /\ d \in Nat /\ d <= Len(stream) /\ e \in {0, 1}
      /\ Len(stream') = Len(stream) - d /\ Size' = Size - d + e
  BY WireTypes DEF Moved
<1>2. CASE Solid /\ \A j \in Len(stream) + 1 .. Size : Wire[j].cmd # "open"
  <2>1. Solid'
    BY <1>2 DEF Solid
  <2>2. ASSUME NEW j \in Len(stream') + 1 .. Size' PROVE Wire'[j].cmd # "open"
    <3>1. j \in 1 .. Size' /\ j > Len(stream')
      BY <1>1
    <3>2. CASE j + d \in 1 .. Size /\ Wire'[j] = Wire[j + d] /\ j + d > Len(stream)
      <4>1. j + d \in Len(stream) + 1 .. Size
        BY <1>1, <3>2
      <4> QED
        BY <1>2, <3>2, <4>1
    <3>3. CASE e = 1 /\ Wire'[j].cmd = x
      BY <3>3
    <3> QED
      BY <3>1, <3>2, <3>3, MovedFrom
  <2> QED
    BY <2>1, <2>2 DEF Settled
<1>3. CASE \E i \in Len(stream) + 1 .. Size :
             /\ Wire[i].cmd = "write"
             /\ \A j \in Len(stream) + 1 .. Size : j > i => Wire[j].cmd # "open"
  <2>1. PICK i \in Len(stream) + 1 .. Size :
             /\ Wire[i].cmd = "write"
             /\ \A j \in Len(stream) + 1 .. Size : j > i => Wire[j].cmd # "open"
    BY <1>3
  <2> DEFINE t == i - d
  <2>2. t \in Len(stream') + 1 .. Size' /\ t \in 1 .. Size - d /\ t + d = i
    BY <1>1
  <2> HIDE DEF t
  <2>3. Wire'[t].cmd = "write"
    <3>1. Wire'[t] = Wire[t + d]
      BY <2>2 DEF Moved
    <3> QED
      BY <2>1, <2>2, <3>1
  <2>4. ASSUME NEW j \in Len(stream') + 1 .. Size', j > t PROVE Wire'[j].cmd # "open"
    <3>1. j \in 1 .. Size' /\ j > Len(stream') /\ j + d > i
      BY <1>1, <2>2, <2>4
    <3>2. CASE j + d \in 1 .. Size /\ Wire'[j] = Wire[j + d] /\ j + d > Len(stream)
      <4>1. j + d \in Len(stream) + 1 .. Size
        BY <1>1, <3>2
      <4> QED
        BY <2>1, <3>1, <3>2, <4>1
    <3>3. CASE e = 1 /\ Wire'[j].cmd = x
      BY <3>3
    <3> QED
      BY <3>1, <3>2, <3>3, MovedFrom
  <2> QED
    BY <2>2, <2>3, <2>4 DEF Settled
<1> QED
  BY <1>2, <1>3 DEF Settled

\* The agent keeps the file settled: it writes it after having emptied it.
LEMMA SettledAnswered ==
  ASSUME Types, AgentAnswers, Settled
  PROVE  Settled'
<1>1. /\ Len(stream) \in Nat /\ Size \in Nat
  BY WireTypes
<1>2. /\ Size' = Size /\ Wire' = Wire
      /\ Len(stream') = Len(stream) + 1 /\ Len(stream) + 1 <= Size
      /\ Wire[Len(stream) + 1].cmd = Head(inbox).cmd
  BY AgentKeepsWire
<1>3. /\ Head(inbox).cmd = "write" => guestFile' = File("host")
      /\ Head(inbox).cmd \notin Writes => guestFile' = guestFile /\ exists' = exists
      /\ skippedEmpty' = skippedEmpty
  BY AgentCases DEF host, Writes
<1> DEFINE b == Len(stream)
<1>4. /\ b \in Nat /\ b + 1 \in b + 1 .. Size /\ \A j \in b + 2 .. Size : j \in b + 1 .. Size
      /\ \A j \in b + 1 .. Size : j # b + 1 => j \in b + 2 .. Size
  BY <1>1, <1>2
<1>5. Len(stream') + 1 = b + 2
  BY <1>1, <1>2
<1>6. \/ \E i \in b + 1 .. Size :
           /\ Wire[i].cmd = "write"
           /\ \A j \in b + 1 .. Size : j > i => Wire[j].cmd # "open"
      \/ Solid /\ \A j \in b + 1 .. Size : Wire[j].cmd # "open"
  BY DEF Settled
<1>7. SUFFICES \/ \E i \in b + 2 .. Size :
                    /\ Wire[i].cmd = "write"
                    /\ \A j \in b + 2 .. Size : j > i => Wire[j].cmd # "open"
               \/ Solid' /\ \A j \in b + 2 .. Size : Wire[j].cmd # "open"
  BY <1>2, <1>5 DEF Settled
<1>8. Wire[b + 1].cmd = Head(inbox).cmd
  BY <1>2
<1>9. Head(inbox).cmd = "write" => Solid'
  BY <1>3, FileFacts DEF Solid
<1>10. Head(inbox).cmd \notin Writes /\ Solid => Solid'
  BY <1>3 DEF Solid
<1> HIDE DEF b
<1>11. CASE \E i \in b + 1 .. Size :
              /\ Wire[i].cmd = "write"
              /\ \A j \in b + 1 .. Size : j > i => Wire[j].cmd # "open"
  <2>1. PICK i \in b + 1 .. Size :
              /\ Wire[i].cmd = "write"
              /\ \A j \in b + 1 .. Size : j > i => Wire[j].cmd # "open"
    BY <1>11
  <2>2. CASE i = b + 1
    <3>1. Solid'
      BY <1>8, <1>9, <2>1, <2>2
    <3>2. \A j \in b + 2 .. Size : j > i /\ j \in b + 1 .. Size
      BY <1>4, <2>2
    <3> QED
      BY <2>1, <3>1, <3>2
  <2>3. CASE i # b + 1
    BY <1>4, <2>1, <2>3
  <2> QED
    BY <2>2, <2>3
<1>12. CASE Solid /\ \A j \in b + 1 .. Size : Wire[j].cmd # "open"
  <2>1. Head(inbox).cmd # "open"
    BY <1>4, <1>8, <1>12
  <2>2. Solid'
    BY <1>9, <1>10, <1>12, <2>1 DEF Writes
  <2> QED
    BY <1>4, <1>12, <2>2
<1> QED
  BY <1>6, <1>11, <1>12

\* What a step of the client has to show.
LEMMA WrittenMoved ==
  ASSUME Types, NEW d, NEW e, NEW c, NEW x, Moved(d, e, c, x), Written,
         provisioned => provisioned',
         provisioned' => Settled',
         job' = "provision" /\ (step' >= 6 \/ waiting' = "write") => Settled',
         (\/ provisioned \/ pc = "ended"
          \/ job = "provision" /\ (step >= 5 \/ waiting = "open"))
           => (\/ provisioned' \/ pc' = "ended"
               \/ job' = "provision" /\ (step' >= 5 \/ waiting' = "open")),
         e = 1 /\ x \in Writes =>
           ~provisioned /\ job' = "provision" /\ (step' >= 5 \/ waiting' = "open"),
         e = 1 /\ x \in Reads => provisioned'
  PROVE  Written'
<1>1. /\ Size \in Nat /\ Len(stream) \in Nat /\ Len(stream') \in Nat /\ Size' \in Nat
      /\ d \in Nat
  BY WireTypes DEF Moved
<1>2. ASSUME NEW i \in Len(stream') + 1 .. Size', Wire'[i].cmd \in Writes
      PROVE  \/ provisioned' \/ pc' = "ended"
             \/ job' = "provision" /\ (step' >= 5 \/ waiting' = "open")
  <2>1. i \in 1 .. Size' /\ i > Len(stream')
    BY <1>1
  <2>2. CASE i + d \in 1 .. Size /\ Wire'[i] = Wire[i + d] /\ i + d > Len(stream)
    <3>1. i + d \in Len(stream) + 1 .. Size /\ Wire[i + d].cmd \in Writes
      BY <1>1, <1>2, <2>2
    <3>2. \/ provisioned \/ pc = "ended"
          \/ job = "provision" /\ (step >= 5 \/ waiting = "open")
      BY <3>1 DEF Written
    <3> QED
      BY <3>2
  <2>3. CASE e = 1 /\ Wire'[i].cmd = x
    BY <1>2, <2>3
  <2> QED
    BY <2>1, <2>2, <2>3, MovedFrom
<1>3. ASSUME NEW i \in 1 .. Size', Wire'[i].cmd \in Reads
      PROVE  provisioned'
  <2>1. CASE i + d \in 1 .. Size /\ Wire'[i] = Wire[i + d]
    BY <1>3, <2>1 DEF Written
  <2>2. CASE e = 1 /\ Wire'[i].cmd = x
    BY <1>3, <2>2
  <2> QED
    BY <2>1, <2>2, MovedFrom
<1>4. ASSUME NEW i \in 1 .. Size', NEW j \in 1 .. Size', i < j, Wire'[i].cmd \in Reads
      PROVE  Wire'[j].cmd \notin Writes
  <2>1. i + d \in 1 .. Size /\ Wire'[i] = Wire[i + d]
    <3>1. i # Size'
      BY <1>1, <1>4
    <3> QED
      BY <3>1, MovedFrom
  <2>2. CASE j + d \in 1 .. Size /\ Wire'[j] = Wire[j + d]
    <3>1. i + d < j + d
      BY <1>1, <1>4
    <3> QED
      BY <1>4, <2>1, <2>2, <3>1 DEF Written
  <2>3. CASE e = 1 /\ Wire'[j].cmd = x
    <3>1. provisioned
      BY <1>4, <2>1 DEF Written
    <3> QED
      BY <2>3, <3>1
  <2> QED
    BY <2>2, <2>3, MovedFrom
<1> QED
  BY <1>2, <1>3, <1>4 DEF Written

\* Nothing that could empty the file is under way before it is opened.
LEMMA NothingPending ==
  ASSUME Types, Flow, Written, job = "provision", step < 5, waiting # "open"
  PROVE  \A i \in Len(stream) + 1 .. Size : Wire[i].cmd \notin Writes
<1>1. ~provisioned /\ pc # "ended"
  BY DEF Flow
<1>2. ~(step >= 5)
  BY DEF Types
<1> QED
  BY <1>1, <1>2 DEF Written

\* Written holds at first.
LEMMA WrittenInitially == Init => Written
<1> SUFFICES ASSUME Init PROVE Written
  OBVIOUS
<1>1. Size = 0 /\ Len(stream) = 0
  BY DEF Init, Size
<1> QED
  BY <1>1 DEF Init, Written

\* A step of the client that keeps its job.
LEMMA WrittenCarried ==
  ASSUME Types, Written, NEW d, NEW e, NEW c, NEW x, Moved(d, e, c, x), x \notin Reads, x \notin Writes,
         guestFile' = guestFile, exists' = exists, skippedEmpty' = skippedEmpty,
         UNCHANGED <<job, step, provisioned>>,
         pc # "ended" \/ pc' = "ended",
         waiting # "open" \/ waiting' = "open", waiting' # "write"
  PROVE  Written'
<1>1. x # "open"
  BY DEF Writes
<1>2. Settled => Settled'
  BY <1>1, SettledMoved
<1>3. provisioned => Settled
  BY DEF Written
<1>4. job = "provision" /\ step >= 6 => Settled
  BY DEF Written
<1> QED
  BY <1>2, <1>3, <1>4, WrittenMoved

\* No write reaches the guest behind a step of the client that sends none.
LEMMA NoWritesMoved ==
  ASSUME Types, NEW d, NEW e, NEW c, NEW x, Moved(d, e, c, x), e = 1 => x \notin Writes,
         \A i \in Len(stream) + 1 .. Size : Wire[i].cmd \notin Writes
  PROVE  \A i \in Len(stream') + 1 .. Size' : Wire'[i].cmd \notin Writes
<1>1. /\ Size \in Nat /\ Len(stream) \in Nat /\ Len(stream') \in Nat /\ Size' \in Nat /\ d \in Nat
  BY WireTypes DEF Moved
<1> TAKE j \in Len(stream') + 1 .. Size'
<1>2. j \in 1 .. Size' /\ j > Len(stream')
  BY <1>1
<1>3. CASE j + d \in 1 .. Size /\ Wire'[j] = Wire[j + d] /\ j + d > Len(stream)
  <2>1. j + d \in Len(stream) + 1 .. Size
    BY <1>1, <1>3
  <2> QED
    BY <1>3, <2>1
<1>4. CASE e = 1 /\ Wire'[j].cmd = x
  BY <1>4
<1> QED
  BY <1>2, <1>3, <1>4, MovedFrom

\* Every step keeps Written.
LEMMA WrittenKept ==
  ASSUME Types, Types', Flow, Flow', Written, [Next]_vars
  PROVE  Written'
<1>n. "none" \notin Reads /\ "none" \notin Writes
  BY DEF Reads, Writes
<1>1. CASE AgentAnswers
  <2>1. UNCHANGED <<job, step, waiting, provisioned, pc>>
    BY <1>1 DEF AgentAnswers, client
  <2>2. /\ Size' = Size /\ Wire' = Wire /\ Len(stream') = Len(stream) + 1
        /\ Len(stream) \in Nat /\ Size \in Nat
    BY <1>1, AgentKeepsWire, WireTypes
  <2>3. \A i \in Len(stream') + 1 .. Size' : i \in Len(stream) + 1 .. Size
    BY <2>2
  <2>4. Settled => Settled'
    BY <1>1, SettledAnswered
  <2> QED
    BY <2>1, <2>2, <2>3, <2>4 DEF Written
<1>2. CASE GuestEdits
  <2>1. UNCHANGED <<job, step, waiting, provisioned, pc, stream, inbox, exists, skippedEmpty>>
    BY <1>2 DEF GuestEdits, client, channel, host
  <2>2. Size' = Size /\ Wire' = Wire
    BY <2>1, WireSame
  <2>3. Solid => Solid'
    <3>1. Len(guestFile') = Chunks
      BY <1>2, FileFacts DEF GuestEdits
    <3> QED
      BY <3>1 DEF Solid
  <2>4. Settled => Settled'
    BY <2>1, <2>2, <2>3 DEF Settled
  <2> QED
    BY <2>1, <2>2, <2>4 DEF Written
<1>3. CASE \E j \in Jobs : Begin(j)
  <2>1. PICK j \in Jobs : Begin(j)
    BY <1>3
  <2>2. /\ pc = "idle" /\ pc' = "dial" /\ job' = j
        /\ step' = IF j = "provision" /\ overwrite THEN 2 ELSE 0
        /\ UNCHANGED <<waiting, provisioned>>
    BY <2>1 DEF Begin
  <2>3. UNCHANGED <<stream, inbox, exists, guestFile, skippedEmpty>>
    BY <2>1 DEF Begin, channel, guest, host
  <2>4. Moved(0, 0, conn, "none")
    BY <2>3, WireKept
  <2>5. waiting = "none" /\ job = "none"
    BY <2>2 DEF Flow
  <2>6. provisioned => Settled'
    BY <2>3, <2>4, SettledMoved DEF Written
  <2>7. ~(step' >= 6)
    BY <2>2
  <2> QED
    BY <1>n, <2>2, <2>4, <2>5, <2>6, <2>7, WrittenMoved
<1>4. CASE Dial
  <2>1. /\ pc = "dial" /\ pc' = "sync" /\ waiting' = "sync" /\ stream' = stream
        /\ inbox' = Append(inbox, [conn |-> conn', cmd |-> "sync"])
        /\ UNCHANGED <<job, step, provisioned>>
    BY <1>4 DEF Dial, Send
  <2>2. UNCHANGED <<exists, guestFile, skippedEmpty>>
    BY <1>4 DEF Dial, guest, host
  <2>3. waiting = "none"
    BY <2>1 DEF Flow
  <2>4. Moved(0, 1, conn', "sync") /\ "sync" \notin Reads /\ "sync" \notin Writes
    BY <2>1, WireSends DEF Reads, Writes
  <2> QED
    BY <2>1, <2>2, <2>3, <2>4, WrittenCarried
<1>5. CASE Redials
  <2>1. /\ pc \in {"sync", "probe"} /\ UNCHANGED <<job, step, provisioned, exists, guestFile, skippedEmpty>>
    BY <1>5 DEF Redials, guest, host
  <2>2. waiting' = "none" /\ waiting # "open"
    BY <1>5, <2>1, RedialFacts DEF Flow
  <2>3. PICK d \in 0 .. Len(stream) : Moved(d, 0, conn, "none")
    BY <1>5, RedialFacts
  <2> QED
    BY <1>n, <2>1, <2>2, <2>3, WrittenCarried
<1>6. CASE Quits
  <2>1. /\ job' = "none" /\ waiting' = "none" /\ pc' \in {"idle", "ended"}
        /\ provisioned => provisioned'
        /\ provisioned' /\ ~provisioned =>
             /\ job = "provision"
             /\ \/ pc = "run" /\ step >= 9
                \/ pc = "decide" /\ step = 2 /\ (guestFile = <<>> => skippedEmpty')
        /\ job = "provision" => provisioned' \/ pc' = "ended"
    BY <1>6, QuitFacts
  <2>2. PICK d \in 0 .. Len(stream) : Moved(d, 0, conn, "none")
    BY <1>6, QuitFacts
  <2>3. guestFile' = guestFile /\ exists' = exists /\ (skippedEmpty => skippedEmpty') /\ pc # "ended"
    BY <1>6 DEF Quits, guest
  <2>4. Settled => Settled'
    BY <2>2, <2>3, SettledMoved
  <2>5. provisioned' => Settled'
    <3>1. CASE provisioned
      BY <2>4, <3>1 DEF Written
    <3>2. CASE job = "provision" /\ pc = "run" /\ step >= 9
      <4>1. step >= 6
        BY <3>2 DEF Types
      <4> QED
        BY <2>4, <3>2, <4>1 DEF Written
    <3>3. CASE job = "provision" /\ pc = "decide" /\ step = 2 /\ (guestFile = <<>> => skippedEmpty')
      <4>1. waiting # "open" /\ step < 5
        BY <3>3 DEF Flow
      <4>2. \A i \in Len(stream) + 1 .. Size : Wire[i].cmd \notin Writes
        BY <3>3, <4>1, NothingPending
      <4>3. Solid'
        BY <2>3, <3>3, GuestFileFacts DEF Solid
      <4>4. /\ Len(stream) \in Nat /\ Size \in Nat /\ Len(stream') \in Nat /\ Size' \in Nat /\ d \in Nat
        BY <2>2, WireTypes DEF Moved
      <4>5. ASSUME NEW j \in Len(stream') + 1 .. Size' PROVE Wire'[j].cmd # "open"
        <5>1. j \in 1 .. Size' /\ j > Len(stream')
          BY <4>4
        <5>2. j + d \in 1 .. Size /\ Wire'[j] = Wire[j + d] /\ j + d > Len(stream)
          BY <2>2, <5>1, MovedFrom
        <5>3. j + d \in Len(stream) + 1 .. Size
          BY <4>4, <5>2
        <5> QED
          BY <4>2, <5>2, <5>3 DEF Writes
      <4> QED
        BY <4>3, <4>5 DEF Settled
    <3> QED
      BY <2>1, <3>1, <3>2, <3>3
  <2> QED
    BY <1>n, <2>1, <2>2, <2>3, <2>5, WrittenMoved
<1>7. CASE Synchronize
  <2>1. /\ pc = "sync" /\ stream # <<>> /\ stream' = Tail(stream)
        /\ UNCHANGED <<job, step, provisioned>>
    BY <1>7 DEF Synchronize
  <2>2. UNCHANGED <<exists, guestFile, skippedEmpty>>
    BY <1>7 DEF Synchronize, guest, host
  <2>3. waiting = "sync"
    BY <2>1 DEF Flow
  <2>4. CASE UNCHANGED <<pc, waiting, inbox>>
    <3>1. Moved(1, 0, conn, "none")
      BY <2>1, <2>4, WireTaken
    <3> QED
      BY <1>n, <2>1, <2>2, <2>3, <2>4, <3>1, WrittenCarried
  <2>5. CASE pc' = "probe" /\ Send(conn, "ping")
    <3>1. waiting' = "ping" /\ inbox' = Append(inbox, [conn |-> conn, cmd |-> "ping"])
      BY <2>5 DEF Send
    <3>2. Moved(1, 1, conn, "ping")
      <4>1. SubSeq(stream, 1 + 1, Len(stream)) = Tail(stream) /\ 1 \in 0 .. Len(stream)
        BY <2>1 DEF Types
      <4> QED
        BY <2>1, <3>1, <4>1, WireMoves
    <3>3. "ping" \notin Reads /\ "ping" \notin Writes
      BY DEF Reads, Writes
    <3> QED
      BY <2>1, <2>2, <2>3, <2>5, <3>1, <3>2, <3>3, WrittenCarried
  <2> QED
    BY <1>7, <2>4, <2>5 DEF Synchronize
<1>8. CASE Takes
  <2>1. /\ pc \in {"probe", "run"} /\ stream # <<>> /\ stream' = Tail(stream) /\ inbox' = inbox
        /\ waiting # "none" /\ UNCHANGED <<job, provisioned>>
    BY <1>8 DEF Takes
  <2>2. UNCHANGED <<exists, guestFile, skippedEmpty>>
    BY <1>8 DEF Takes, guest, host
  <2>3. Moved(1, 0, conn, "none")
    BY <2>1, WireTaken
  <2>4. Settled => Settled'
    BY <2>2, <2>3, SettledMoved
  <2>5. step \in Nat /\ job \in Jobs
    BY <2>1 DEF Types, Flow
  <2>6. /\ pc = "run" => (waiting = "write" <=> job = "provision" /\ step = 5)
        /\ pc = "run" => (waiting = "open" <=> job = "provision" /\ step = 4)
        /\ pc = "probe" => waiting = "ping" /\ step <= 2
    <3>1. pc = "run" => step < Len(Program(job)) /\ waiting = Program(job)[step + 1]
      BY <2>1 DEF Flow
    <3>2. pc = "probe" => waiting = "ping" /\ (step = 0 \/ step = 2)
      BY DEF Flow
    <3> QED
      BY <2>5, <3>1, <3>2, ProgramCommands
  <2>7. /\ waiting' = "none" /\ pc' # "ended"
        /\ pc = "probe" => step' = step
        /\ step' = step \/ step' = step + 1
        /\ pc = "run" /\ waiting = "open" => step' = step + 1
    BY <1>8, TakeCases
  <2>8. job = "provision" /\ step' >= 6 => step >= 6 \/ waiting = "write"
    BY <2>1, <2>5, <2>6, <2>7
  <2>9. job = "provision" /\ (step >= 5 \/ waiting = "open") => step' >= 5
    BY <2>1, <2>5, <2>6, <2>7
  <2>10. /\ provisioned' => Settled'
         /\ job' = "provision" /\ (step' >= 6 \/ waiting' = "write") => Settled'
    BY <2>1, <2>4, <2>7, <2>8 DEF Written
  <2> QED
    BY <1>n, <2>1, <2>3, <2>7, <2>9, <2>10, WrittenMoved
<1>9. CASE RunSends
  <2>1. /\ pc = "run" /\ waiting = "none" /\ step < Len(Program(job)) /\ stream' = stream
        /\ inbox' = Append(inbox, [conn |-> conn, cmd |-> Program(job)[step + 1]])
        /\ waiting' = Program(job)[step + 1]
        /\ UNCHANGED <<job, pc, step, provisioned>>
    BY <1>9 DEF RunSends, Send
  <2>2. UNCHANGED <<exists, guestFile, skippedEmpty>>
    BY <1>9 DEF RunSends, guest, host
  <2>3. step \in Nat /\ job \in Jobs
    BY <2>1 DEF Types, Flow
  <2> DEFINE x == Program(job)[step + 1]
  <2>4. /\ x = "open" <=> job = "provision" /\ step = 4
        /\ x = "write" <=> job = "provision" /\ step = 5
        /\ x \in Reads => job = "writeBack"
    BY <2>1, <2>3, ProgramCommands DEF Reads
  <2>5. Moved(0, 1, conn, x) /\ waiting' = x
    BY <2>1, WireSends
  <2> HIDE DEF x
  <2>6. x # "open" /\ Settled => Settled'
    BY <2>2, <2>5, SettledMoved
  <2>7. (job = "provision" => ~provisioned) /\ (job = "writeBack" => provisioned)
    BY DEF Flow
  <2>8. provisioned' => Settled'
    BY <2>1, <2>4, <2>6, <2>7 DEF Written
  <2>9. x = "write" => Settled'
    <3>1. /\ Wire'[Size'].cmd = x /\ Size' = Size - 0 + 1 /\ Len(stream') = Len(stream) - 0
      BY <2>5 DEF Moved
    <3>2. Len(stream) \in Nat /\ Size \in Nat /\ Len(stream) <= Size
      BY WireTypes
    <3>3. Size' \in Len(stream') + 1 .. Size' /\ \A j \in Len(stream') + 1 .. Size' : ~(j > Size')
      BY <3>1, <3>2
    <3> QED
      BY <3>1, <3>3 DEF Settled
  <2>10. job = "provision" /\ step >= 6 => Settled'
    <3>1. job = "provision" /\ step >= 6 => x # "open"
      BY <2>3, <2>4
    <3> QED
      BY <2>6, <3>1 DEF Written
  <2>11. x \in Writes => ~provisioned /\ job = "provision" /\ (step >= 5 \/ x = "open")
    BY <2>3, <2>4, <2>7 DEF Writes
  <2> QED
    BY <2>1, <2>4, <2>5, <2>7, <2>8, <2>9, <2>10, <2>11, WrittenMoved
<1>10. CASE Proceeds
  <2>1. /\ UNCHANGED <<job, step, waiting, provisioned, stream, inbox, exists, guestFile, skippedEmpty>>
        /\ pc \in {"run", "decide"}
    BY <1>10 DEF Proceeds, channel, guest, host
  <2>2. waiting = "none"
    BY <1>10 DEF Proceeds, Flow
  <2>3. Moved(0, 0, conn, "none")
    BY <2>1, WireKept
  <2> QED
    BY <1>n, <2>1, <2>2, <2>3, WrittenCarried
<1>11. CASE WriteHost
  <2>1. /\ UNCHANGED <<job, pc, step, waiting, provisioned, stream, inbox, exists, guestFile, skippedEmpty>>
        /\ pc = "host"
    BY <1>11 DEF WriteHost, client, channel, guest
  <2>2. waiting = "none"
    BY <2>1 DEF Flow
  <2>3. Moved(0, 0, conn, "none")
    BY <2>1, WireKept
  <2> QED
    BY <1>n, <2>1, <2>2, <2>3, WrittenCarried
<1>12. CASE Relaunch
  <2>1. /\ stream' = <<>> /\ inbox' = <<>> /\ provisioned' = FALSE /\ job' = "none"
    BY <1>12 DEF Relaunch
  <2>2. Size' = 0 /\ Len(stream') = 0
    BY <2>1 DEF Size
  <2> QED
    BY <2>1, <2>2 DEF Written
<1>13. CASE UNCHANGED vars
  <2>1. UNCHANGED <<job, pc, step, waiting, provisioned, stream, inbox, exists, guestFile, skippedEmpty>>
    BY <1>13 DEF vars, client, channel, guest, host
  <2>2. Size' = Size /\ Wire' = Wire
    BY <2>1, WireSame
  <2> QED
    BY <2>1, <2>2 DEF Written, Settled, Solid
<1>14. CASE Closes
  <2>1. "close" \notin Reads /\ "close" \notin Writes
    BY DEF Reads, Writes
  <2>2. /\ pc = "run" /\ waiting # "open" /\ waiting' = "close" /\ Moved(1, 1, conn, "close")
        /\ UNCHANGED <<job, step, provisioned, exists, guestFile, skippedEmpty>>
    BY <1>14, CloseFacts
  <2> QED
    BY <2>1, <2>2, WrittenCarried
<1>15. CASE Resume
  <2>1. /\ pc # "ended" /\ job # "provision" /\ job' = "none" /\ provisioned' = TRUE
        /\ guestFile' = guestFile /\ exists' = exists /\ (skippedEmpty => skippedEmpty')
        /\ exists /\ guestFile = <<>> => skippedEmpty'
    BY <1>15, ResumeFacts
  <2>2. PICK d \in 0 .. Len(stream) : Moved(d, 0, conn, "none")
    BY <1>15, ResumeFacts
  <2>3. ASSUME provisioned PROVE Settled'
    BY <2>1, <2>2, <2>3, SettledMoved DEF Written
  <2>4. ASSUME ~provisioned PROVE Settled'
    <3>1. \A i \in Len(stream) + 1 .. Size : Wire[i].cmd \notin Writes
      BY <2>1, <2>4 DEF Written
    <3>2. \A i \in Len(stream') + 1 .. Size' : Wire'[i].cmd \notin Writes
      BY <2>2, <3>1, NoWritesMoved
    <3>3. Solid'
      BY <2>1, GuestFileFacts DEF Solid
    <3> QED
      BY <3>2, <3>3 DEF Settled, Writes
  <2>5. Settled'
    BY <2>3, <2>4
  <2> QED
    BY <1>n, <2>1, <2>2, <2>5, WrittenMoved
<1> QED
  BY <1>1, <1>2, <1>3, <1>4, <1>5, <1>6, <1>7, <1>8, <1>9, <1>10, <1>11, <1>12, <1>13, <1>14,
     <1>15, StepCases

\* Present holds at first.
LEMMA PresentInitially == Init => Present
<1> SUFFICES ASSUME Init PROVE Present
  OBVIOUS
<1>1. Size = 0
  BY DEF Init, Size
<1> QED
  BY <1>1 DEF Init, Present

\* What a step of the client has to show.
LEMMA PresentMoved ==
  ASSUME Types, NEW d, NEW e, NEW c, NEW x, Moved(d, e, c, x), Present, exists => exists',
         job' = "writeBack" /\ step' >= 1 => exists, e = 1 /\ x = "read" => exists
  PROVE  Present'
<1>1. ASSUME NEW i \in 1 .. Size', Wire'[i].cmd = "read" PROVE exists'
  <2>1. CASE i + d \in 1 .. Size /\ Wire'[i] = Wire[i + d]
    BY <1>1, <2>1 DEF Present
  <2>2. CASE e = 1 /\ Wire'[i].cmd = x
    BY <1>1, <2>2
  <2> QED
    BY <2>1, <2>2, MovedFrom
<1> QED
  BY <1>1 DEF Present

\* Every step keeps Present: an opening for reading that is taken as done found
\* the file there, and no file goes away.
LEMMA PresentKept ==
  ASSUME Types, Flow, Flow', Present, [Next]_vars
  PROVE  Present'
<1>1. CASE AgentAnswers
  <2>1. UNCHANGED <<job, step>> /\ (exists => exists')
    BY <1>1, AgentCases DEF client
  <2>2. Size' = Size /\ Wire' = Wire
    BY <1>1, AgentKeepsWire
  <2> QED
    BY <2>1, <2>2 DEF Present
<1>2. CASE GuestEdits
  <2>1. UNCHANGED <<job, step, stream, inbox, exists>>
    BY <1>2 DEF GuestEdits, client, channel
  <2> QED
    BY <2>1, WireSame DEF Present
<1>3. CASE \E j \in Jobs : Begin(j)
  <2>1. PICK j \in Jobs : Begin(j)
    BY <1>3
  <2>2. /\ UNCHANGED <<stream, inbox, exists>> /\ job' = j
        /\ step' = IF j = "provision" /\ overwrite THEN 2 ELSE 0
    BY <2>1 DEF Begin, channel, guest
  <2>3. job' = "writeBack" => ~(step' >= 1)
    BY <2>2
  <2> QED
    BY <2>2, <2>3, WireSame DEF Present
<1>4. CASE Dial
  <2>1. /\ stream' = stream /\ inbox' = Append(inbox, [conn |-> conn', cmd |-> "sync"])
        /\ UNCHANGED <<job, step, exists>>
    BY <1>4 DEF Dial, Send, guest
  <2>2. Moved(0, 1, conn', "sync")
    BY <2>1, WireSends
  <2>3. job' = "writeBack" /\ step' >= 1 => exists
    BY <2>1 DEF Present
  <2> QED
    BY <2>1, <2>2, <2>3, PresentMoved
<1>5. CASE Redials
  <2>1. PICK d \in 0 .. Len(stream) : Moved(d, 0, conn, "none")
    BY <1>5, RedialFacts
  <2>2. UNCHANGED <<job, step, exists>>
    BY <1>5 DEF Redials, guest
  <2>3. job' = "writeBack" /\ step' >= 1 => exists
    BY <2>2 DEF Present
  <2> QED
    BY <2>1, <2>2, <2>3, PresentMoved
<1>6. CASE Quits
  <2>1. PICK d \in 0 .. Len(stream) : Moved(d, 0, conn, "none")
    BY <1>6, QuitFacts
  <2>2. job' = "none" /\ exists' = exists
    BY <1>6, QuitFacts DEF Quits, guest
  <2> QED
    BY <2>1, <2>2, PresentMoved
<1>7. CASE Synchronize
  <2>1. stream # <<>> /\ stream' = Tail(stream) /\ UNCHANGED <<job, step, exists>>
    BY <1>7 DEF Synchronize, guest
  <2>2. job' = "writeBack" /\ step' >= 1 => exists
    BY <2>1 DEF Present
  <2>3. CASE inbox' = inbox
    BY <2>1, <2>2, <2>3, WireTaken, PresentMoved
  <2>4. CASE inbox' = Append(inbox, [conn |-> conn, cmd |-> "ping"])
    <3>1. SubSeq(stream, 1 + 1, Len(stream)) = Tail(stream) /\ 1 \in 0 .. Len(stream)
      BY <2>1 DEF Types
    <3>2. Moved(1, 1, conn, "ping")
      BY <2>1, <2>4, <3>1, WireMoves
    <3> QED
      BY <2>1, <2>2, <3>2, PresentMoved
  <2> QED
    BY <1>7, <2>3, <2>4 DEF Synchronize, Send
<1>8. CASE Takes
  <2>1. /\ stream # <<>> /\ stream' = Tail(stream) /\ inbox' = inbox /\ job' = job
        /\ exists' = exists /\ (waiting = "openRead" => exists) /\ waiting # "none"
        /\ pc \in {"probe", "run"}
    BY <1>8 DEF Takes, guest
  <2>2. Moved(1, 0, conn, "none")
    BY <2>1, WireTaken
  <2>3. job = "writeBack" /\ step' >= 1 => exists
    <3> SUFFICES ASSUME job = "writeBack", step' >= 1 PROVE exists
      OBVIOUS
    <3>1. step \in Nat /\ job \in Jobs
      BY DEF Types, Jobs
    <3>2. pc = "probe" => step' = step
      BY <1>8, TakeCases
    <3>3. step # 0 => step >= 1
      BY <3>1
    <3>4. CASE step # 0
      BY <3>3, <3>4 DEF Present
    <3>5. CASE step = 0
      <4>1. pc = "run"
        BY <2>1, <3>2, <3>5
      <4>2. step < Len(Program(job)) /\ waiting = Program(job)[step + 1]
        BY <2>1, <4>1 DEF Flow
      <4>3. waiting = "openRead"
        BY <3>1, <3>5, <4>2, ProgramCommands
      <4> QED
        BY <2>1, <4>3
    <3> QED
      BY <3>4, <3>5
  <2> QED
    BY <2>1, <2>2, <2>3, PresentMoved
<1>9. CASE RunSends
  <2>1. /\ pc = "run" /\ step < Len(Program(job)) /\ stream' = stream
        /\ inbox' = Append(inbox, [conn |-> conn, cmd |-> Program(job)[step + 1]])
        /\ UNCHANGED <<job, step, exists>>
    BY <1>9 DEF RunSends, Send, guest
  <2>2. step \in Nat /\ job \in Jobs
    BY <2>1 DEF Types, Flow
  <2> DEFINE x == Program(job)[step + 1]
  <2>3. x = "read" => job = "writeBack" /\ step = 1
    BY <2>1, <2>2, ProgramCommands
  <2>4. Moved(0, 1, conn, x)
    BY <2>1, WireSends
  <2> HIDE DEF x
  <2>5. x = "read" => exists
    <3>1. step = 1 => step >= 1
      OBVIOUS
    <3> QED
      BY <2>3, <3>1 DEF Present
  <2>6. job' = "writeBack" /\ step' >= 1 => exists
    BY <2>1 DEF Present
  <2> QED
    BY <2>1, <2>4, <2>5, <2>6, PresentMoved
<1>10. CASE Proceeds
  BY <1>10, WireSame DEF Proceeds, Present, channel, guest
<1>11. CASE WriteHost
  BY <1>11, WireSame DEF WriteHost, Present, client, channel, guest
<1>12. CASE Relaunch
  <2>1. stream' = <<>> /\ inbox' = <<>> /\ job' = "none"
    BY <1>12 DEF Relaunch
  <2>2. Size' = 0
    BY <2>1 DEF Size
  <2> QED
    BY <2>1, <2>2 DEF Present
<1>13. CASE UNCHANGED vars
  BY <1>13, WireSame DEF vars, Present, client, channel, guest
<1>14. CASE Closes
  <2>1. UNCHANGED <<job, step, exists>> /\ Moved(1, 1, conn, "close")
    BY <1>14, CloseFacts
  <2>2. job' = "writeBack" /\ step' >= 1 => exists
    BY <2>1 DEF Present
  <2> QED
    BY <2>1, <2>2, PresentMoved
<1>15. CASE Resume
  <2>1. PICK d \in 0 .. Len(stream) : Moved(d, 0, conn, "none")
    BY <1>15, ResumeFacts
  <2>2. job' = "none" /\ exists' = exists
    BY <1>15, ResumeFacts
  <2> QED
    BY <2>1, <2>2, PresentMoved
<1> QED
  BY <1>1, <1>2, <1>3, <1>4, <1>5, <1>6, <1>7, <1>8, <1>9, <1>10, <1>11, <1>12, <1>13, <1>14,
     <1>15, StepCases

-----------------------------------------------------------------------------
(* Reading it back *)

\* Another whole file holds the same pieces.
LEMMA HoldsKept ==
  ASSUME NEW f, NEW g, NEW s, NEW t, NEW a, NEW k, Len(f) = Chunks => Len(g) = Chunks, s => t,
         Holds(f, s, a, k)
  PROVE  Holds(g, t, a, k)
BY DEF Holds

\* Once a command that reads is on the wire, the file is no longer written.
LEMMA NoWriteBehindRead ==
  ASSUME Types, Written, AgentAnswers, NEW i \in 1 .. Len(stream), stream[i].cmd \in Reads
  PROVE  guestFile' = guestFile
<1>1. /\ Len(stream) \in Nat /\ Size \in Nat /\ Wire[i].cmd = stream[i].cmd
  BY WireTypes
<1>2. Len(stream) + 1 <= Size /\ Wire[Len(stream) + 1].cmd = Head(inbox).cmd
  BY AgentKeepsWire
<1>3. i \in 1 .. Size /\ Len(stream) + 1 \in 1 .. Size /\ i < Len(stream) + 1
  BY <1>1, <1>2
<1>4. Head(inbox).cmd \notin Writes
  BY <1>1, <1>2, <1>3 DEF Written
<1> QED
  BY <1>4, AgentCases

\* What the agent answers to a read.
LEMMA ReadAnswer ==
  ASSUME Types, Written, Present, AgentAnswers, Reply.cmd = "read"
  PROVE  /\ guestFile' = guestFile /\ Solid
         /\ Len(guestFile) = Chunks /\ readPos < Chunks =>
              /\ Holds(guestFile, skippedEmpty, Reply, readPos)
              /\ readPos' = readPos + 1
         /\ Len(guestFile) = 0 => Len(Reply.data) = 0 /\ Reply.eof /\ skippedEmpty
         /\ ~Reply.eof =>
              /\ Len(guestFile) = Chunks /\ readPos + 1 < Chunks
              /\ Len(Reply.data) = 1 /\ Reply.data[1].piece = readPos + 1
              /\ readPos' = readPos + 1
<1>1. /\ Len(stream) \in Nat /\ Size \in Nat /\ Len(stream) + 1 <= Size
      /\ Wire[Len(stream) + 1].cmd = "read" /\ Head(inbox).cmd = "read"
  BY WireTypes, AgentKeepsWire
<1>2. Len(stream) + 1 \in 1 .. Size
  BY <1>1
<1>3. provisioned /\ Settled
  BY <1>1, <1>2 DEF Written, Reads
<1>4. ASSUME NEW j \in Len(stream) + 1 .. Size PROVE Wire[j].cmd \notin Writes
  <2>1. j \in 1 .. Size /\ (j = Len(stream) + 1 \/ Len(stream) + 1 < j)
    BY <1>1
  <2>2. CASE j = Len(stream) + 1
    BY <1>1, <2>2 DEF Writes
  <2>3. CASE Len(stream) + 1 < j
    BY <1>1, <1>2, <2>1, <2>3 DEF Written, Reads
  <2> QED
    BY <2>1, <2>2, <2>3
<1>5. Solid
  BY <1>3, <1>4 DEF Settled, Writes
<1>6. /\ guestFile' = guestFile
      /\ readPos < Len(guestFile) => readPos' = readPos + 1
  BY <1>1, AgentCases DEF Writes
<1>7. /\ Reply.data = IF readPos < Len(guestFile) THEN <<guestFile[readPos + 1]>> ELSE <<>>
      /\ Reply.eof = (readPos + 1 >= Len(guestFile))
  BY <1>1 DEF Reply
<1>8. /\ readPos \in Nat /\ Chunks \in Nat \ {0} /\ Len(guestFile) \in {0, Chunks}
      /\ Len(guestFile) = Chunks => \A i \in 1 .. Chunks : guestFile[i].piece = i
  BY GuestFileFacts, GuestAgentAssumption DEF Types
<1>9. Len(guestFile) = Chunks /\ readPos < Chunks =>
        /\ Len(Reply.data) = 1 /\ Reply.data[1] = guestFile[readPos + 1]
  BY <1>7
<1>10. readPos < Chunks => readPos + 1 \in 1 .. Chunks
  BY <1>8
<1>11. Len(guestFile) = Chunks /\ readPos < Chunks =>
        Len(Reply.data) = 1 /\ Reply.data[1].piece = readPos + 1
  BY <1>8, <1>9, <1>10
<1>12. Len(guestFile) = Chunks /\ readPos < Chunks => (Reply.eof <=> readPos + 1 = Chunks)
  <2>1. Len(guestFile) = Chunks => (Reply.eof <=> readPos + 1 >= Chunks)
    BY <1>7
  <2> QED
    BY <1>8, <2>1
<1>13. Len(guestFile) = Chunks /\ readPos < Chunks => Holds(guestFile, skippedEmpty, Reply, readPos)
  BY <1>11, <1>12 DEF Holds
<1>14. Len(guestFile) = 0 => Len(Reply.data) = 0 /\ Reply.eof /\ skippedEmpty
  <2>1. Len(guestFile) = 0 => ~(readPos < Len(guestFile)) /\ readPos + 1 >= Len(guestFile)
    BY <1>8
  <2>2. Len(guestFile) = 0 => Len(Reply.data) = 0 /\ Reply.eof
    BY <1>7, <2>1
  <2>3. Len(guestFile) = 0 => skippedEmpty
    BY <1>1, <1>2, <1>5, <1>8 DEF Solid, Present
  <2> QED
    BY <2>2, <2>3
<1>15. ~Reply.eof => Len(guestFile) = Chunks /\ readPos + 1 < Chunks /\ readPos < Chunks
  <2>1. ~Reply.eof => ~(readPos + 1 >= Len(guestFile))
    BY <1>7
  <2>2. Len(guestFile) = 0 \/ Len(guestFile) = Chunks
    BY <1>8
  <2>3. Len(guestFile) = 0 => readPos + 1 >= Len(guestFile)
    BY <1>8
  <2>4. ~(readPos + 1 >= Chunks) => readPos + 1 < Chunks /\ readPos < Chunks
    BY <1>8
  <2> QED
    BY <2>1, <2>2, <2>3, <2>4
<1> QED
  BY <1>5, <1>6, <1>11, <1>13, <1>14, <1>15

\* A step of the client keeps the chain, a read being sent behind a read only.
LEMMA ChainedMoved ==
  ASSUME Types, Chained, NEW d, NEW e, NEW c, NEW x, Moved(d, e, c, x),
         guestFile' = guestFile, readPos' = readPos, skippedEmpty => skippedEmpty',
         e = 1 /\ x = "read" => (Size > 0 => Wire[Size].cmd \in Reads)
  PROVE  Chained'
<1>1. /\ Size \in Nat /\ Len(stream) \in Nat /\ Len(stream) <= Size
      /\ d \in Nat /\ d <= Len(stream) /\ e \in {0, 1}
      /\ Len(stream') = Len(stream) - d /\ Size' = Size - d + e
  BY WireTypes DEF Moved
<1>2. /\ \A k \in 1 .. Size - d : Wire'[k] = Wire[k + d]
      /\ \A k \in 1 .. Len(stream) - d : stream'[k] = stream[k + d]
      /\ e = 1 => Wire'[Size'].cmd = x
  BY DEF Moved
<1>3. ASSUME NEW i \in 1 .. Len(stream')
      PROVE  i + d \in 1 .. Len(stream) /\ stream'[i] = stream[i + d]
  <2>1. i \in 1 .. Len(stream) - d /\ i + d \in 1 .. Len(stream)
    BY <1>1
  <2> QED
    BY <1>2, <2>1
<1>4. \A i \in 1 .. Len(stream') : stream'[i].cmd # "read" => Len(stream'[i].data) = 0
  BY <1>3 DEF Chained
<1>5. ASSUME NEW i \in 2 .. Size', Wire'[i].cmd = "read"
      PROVE  Wire'[i - 1].cmd \in Reads
  <2>1. CASE i <= Size - d
    <3>1. /\ i \in 1 .. Size - d /\ i - 1 \in 1 .. Size - d
          /\ i + d \in 2 .. Size /\ (i - 1) + d = (i + d) - 1
      BY <1>1, <2>1
    <3>2. Wire'[i] = Wire[i + d] /\ Wire'[i - 1] = Wire[(i + d) - 1]
      BY <1>2, <3>1
    <3> QED
      BY <1>5, <3>1, <3>2 DEF Chained
  <2>2. CASE ~(i <= Size - d)
    <3>1. e = 1 /\ i = Size' /\ i - 1 = Size - d /\ i - 1 \in 1 .. Size - d /\ Size > 0
          /\ (i - 1) + d = Size
      BY <1>1, <2>2
    <3>2. Wire'[i - 1] = Wire[Size] /\ x = "read"
      BY <1>2, <1>5, <3>1
    <3> QED
      BY <3>1, <3>2
  <2> QED
    BY <2>1, <2>2
<1>6. ASSUME NEW i \in 2 .. Len(stream'), stream'[i].cmd = "read"
      PROVE  /\ stream'[i - 1].cmd = "openRead" => Holds(guestFile', skippedEmpty', stream'[i], 0)
             /\ stream'[i - 1].cmd = "read" /\ ~stream'[i - 1].eof =>
                  Holds(guestFile', skippedEmpty', stream'[i], stream'[i - 1].data[1].piece)
  <2>1. /\ i \in 1 .. Len(stream') /\ i - 1 \in 1 .. Len(stream')
        /\ i + d \in 2 .. Len(stream) /\ (i - 1) + d = (i + d) - 1
    BY <1>1
  <2>2. stream'[i] = stream[i + d] /\ stream'[i - 1] = stream[(i + d) - 1]
    BY <1>3, <2>1
  <2>3. /\ stream[(i + d) - 1].cmd = "openRead" => Holds(guestFile, skippedEmpty, stream[i + d], 0)
        /\ stream[(i + d) - 1].cmd = "read" /\ ~stream[(i + d) - 1].eof =>
             Holds(guestFile, skippedEmpty, stream[i + d], stream[(i + d) - 1].data[1].piece)
    BY <1>6, <2>1, <2>2 DEF Chained
  <2> QED
    BY <2>2, <2>3, HoldsKept
<1>7. \A i \in 1 .. Len(stream') :
        stream'[i].cmd = "read" /\ ~stream'[i].eof =>
          /\ Len(guestFile') = Chunks /\ Len(stream'[i].data) = 1
          /\ stream'[i].data[1].piece < Chunks
  BY <1>3 DEF Chained
<1>8. Len(stream') > 0 => Len(stream) > 0 /\ stream'[Len(stream')] = stream[Len(stream)]
  <2>1. Len(stream') > 0 => Len(stream') \in 1 .. Len(stream') /\ Len(stream') + d = Len(stream) /\ Len(stream) > 0
    BY <1>1
  <2> QED
    BY <1>3, <2>1
<1> QED
  BY <1>4, <1>5, <1>6, <1>7, <1>8 DEF Chained

\* The agent's answer continues the chain.
LEMMA ChainedAnswered ==
  ASSUME Types, Written, Present, Chained, AgentAnswers
  PROVE  Chained'
<1>1. /\ Size' = Size /\ Wire' = Wire /\ Len(stream) \in Nat
      /\ Len(stream') = Len(stream) + 1 /\ Len(stream) + 1 <= Size
      /\ \A i \in 1 .. Len(stream) : stream'[i] = stream[i]
      /\ stream'[Len(stream) + 1] = Reply
      /\ Wire[Len(stream) + 1].cmd = Reply.cmd /\ Reply.cmd = Head(inbox).cmd
  BY AgentKeepsWire, WireTypes
<1>s. skippedEmpty' = skippedEmpty
  BY AgentCases DEF host
<1>2. \A i \in 1 .. Len(stream') : i \in 1 .. Len(stream) \/ i = Len(stream) + 1
  BY <1>1
<1>3. Reply.cmd # "read" => Len(Reply.data) = 0
  BY DEF Reply
<1>4. \A i \in 1 .. Len(stream') : stream'[i].cmd # "read" => Len(stream'[i].data) = 0
  BY <1>1, <1>2, <1>3 DEF Chained
<1>5. ASSUME NEW i \in 2 .. Len(stream'), stream'[i].cmd = "read"
      PROVE  /\ stream'[i - 1].cmd = "openRead" => Holds(guestFile', skippedEmpty', stream'[i], 0)
             /\ stream'[i - 1].cmd = "read" /\ ~stream'[i - 1].eof =>
                  Holds(guestFile', skippedEmpty', stream'[i], stream'[i - 1].data[1].piece)
  <2>1. i - 1 \in 1 .. Len(stream) /\ (i \in 2 .. Len(stream) \/ i = Len(stream) + 1)
    BY <1>1
  <2>2. stream'[i - 1] = stream[i - 1]
    BY <1>1, <2>1
  <2>3. CASE i \in 2 .. Len(stream)
    <3>1. i \in 1 .. Len(stream)
      BY <1>1, <2>3
    <3>2. stream'[i] = stream[i] /\ guestFile' = guestFile
      BY <1>1, <1>5, <3>1, NoWriteBehindRead DEF Reads
    <3> QED
      BY <1>5, <1>s, <2>2, <2>3, <3>2 DEF Chained
  <2>4. CASE i = Len(stream) + 1
    <3>1. stream'[i] = Reply /\ Reply.cmd = "read" /\ i - 1 = Len(stream) /\ Len(stream) > 0
      BY <1>1, <1>5, <2>1, <2>4
    <3>2. /\ guestFile' = guestFile /\ Solid
          /\ Len(guestFile) = Chunks /\ readPos < Chunks => Holds(guestFile, skippedEmpty, Reply, readPos)
          /\ Len(guestFile) = 0 => Len(Reply.data) = 0 /\ Reply.eof /\ skippedEmpty
      BY <3>1, ReadAnswer
    <3>3. stream'[i - 1].cmd = "openRead" => Holds(guestFile', skippedEmpty', stream'[i], 0)
      <4> SUFFICES ASSUME stream[Len(stream)].cmd = "openRead" PROVE Holds(guestFile, skippedEmpty, Reply, 0)
        BY <1>s, <2>2, <3>1, <3>2
      <4>1. readPos = 0
        BY <3>1 DEF Chained
      <4>2. 0 < Chunks
        BY GuestAgentAssumption
      <4> QED
        BY <3>2, <4>1, <4>2 DEF Solid, Holds
    <3>4. stream'[i - 1].cmd = "read" /\ ~stream'[i - 1].eof =>
            Holds(guestFile', skippedEmpty', stream'[i], stream'[i - 1].data[1].piece)
      <4> SUFFICES ASSUME stream[Len(stream)].cmd = "read", ~stream[Len(stream)].eof
                   PROVE  Holds(guestFile, skippedEmpty, Reply, stream[Len(stream)].data[1].piece)
        BY <1>s, <2>2, <3>1, <3>2
      <4>1. Len(stream) \in 1 .. Len(stream)
        BY <1>1, <3>1
      <4>2. /\ readPos = stream[Len(stream)].data[1].piece
            /\ Len(guestFile) = Chunks /\ readPos < Chunks
        BY <3>1, <4>1 DEF Chained
      <4> QED
        BY <3>2, <4>2
    <3> QED
      BY <3>3, <3>4
  <2> QED
    BY <2>1, <2>3, <2>4
<1>6. ASSUME NEW i \in 1 .. Len(stream'), stream'[i].cmd = "read", ~stream'[i].eof
      PROVE  /\ Len(guestFile') = Chunks /\ Len(stream'[i].data) = 1
             /\ stream'[i].data[1].piece < Chunks
  <2>1. CASE i \in 1 .. Len(stream)
    <3>1. stream'[i] = stream[i] /\ guestFile' = guestFile
      BY <1>1, <1>6, <2>1, NoWriteBehindRead DEF Reads
    <3> QED
      BY <1>6, <2>1, <3>1 DEF Chained
  <2>2. CASE i = Len(stream) + 1
    <3>1. stream'[i] = Reply /\ Reply.cmd = "read" /\ ~Reply.eof
      BY <1>1, <1>6, <2>2
    <3> QED
      BY <3>1, ReadAnswer
  <2> QED
    BY <1>2, <2>1, <2>2
<1>7. stream'[Len(stream')] = Reply
  BY <1>1
<1>8. Reply.cmd = "openRead" => readPos' = 0
  BY <1>1, AgentCases
<1>9. Reply.cmd = "read" /\ ~Reply.eof => readPos' = Reply.data[1].piece
  BY ReadAnswer
<1>10. \A i \in 2 .. Size' : Wire'[i].cmd = "read" => Wire'[i - 1].cmd \in Reads
  BY <1>1 DEF Chained
<1> QED
  BY <1>4, <1>5, <1>6, <1>7, <1>8, <1>9, <1>10 DEF Chained

\* Chained holds at first.
LEMMA ChainedInitially == Init => Chained
<1> SUFFICES ASSUME Init PROVE Chained
  OBVIOUS
<1>1. Size = 0 /\ Len(stream) = 0
  BY DEF Init, Size
<1> QED
  BY <1>1 DEF Chained

\* Every step keeps Chained.
LEMMA ChainedKept ==
  ASSUME Types, Flow, Written, Present, Chained, Collected, [Next]_vars
  PROVE  Chained'
<1>1. CASE AgentAnswers
  BY <1>1, ChainedAnswered
<1>2. CASE GuestEdits
  <2>1. UNCHANGED <<stream, inbox, skippedEmpty, readPos>>
    BY <1>2 DEF GuestEdits, channel, host
  <2>2. Size' = Size /\ Wire' = Wire
    BY <2>1, WireSame
  <2>3. Len(guestFile') = Chunks
    BY <1>2, FileFacts DEF GuestEdits
  <2>4. \A i \in 2 .. Len(stream) :
          stream[i].cmd = "read" =>
            /\ stream[i - 1].cmd = "openRead" => Holds(guestFile', skippedEmpty, stream[i], 0)
            /\ stream[i - 1].cmd = "read" /\ ~stream[i - 1].eof =>
                 Holds(guestFile', skippedEmpty, stream[i], stream[i - 1].data[1].piece)
    BY <2>3, HoldsKept DEF Chained
  <2> QED
    BY <2>1, <2>2, <2>3, <2>4 DEF Chained
<1>3. CASE \E j \in Jobs : Begin(j)
  <2>1. UNCHANGED <<stream, inbox, guestFile, readPos, skippedEmpty>>
    BY <1>3 DEF Begin, channel, guest, host
  <2> QED
    BY <2>1, WireKept, ChainedMoved
<1>4. CASE Dial
  <2>1. stream' = stream /\ inbox' = Append(inbox, [conn |-> conn', cmd |-> "sync"])
    BY <1>4 DEF Dial, Send
  <2>2. UNCHANGED <<guestFile, readPos, skippedEmpty>>
    BY <1>4 DEF Dial, guest, host
  <2>3. Moved(0, 1, conn', "sync")
    BY <2>1, WireSends
  <2> QED
    BY <2>2, <2>3, ChainedMoved
<1>5. CASE Redials
  <2>1. PICK d \in 0 .. Len(stream) : Moved(d, 0, conn, "none")
    BY <1>5, RedialFacts
  <2>2. UNCHANGED <<guestFile, readPos, skippedEmpty>>
    BY <1>5 DEF Redials, guest, host
  <2> QED
    BY <2>1, <2>2, ChainedMoved
<1>6. CASE Quits
  <2>1. PICK d \in 0 .. Len(stream) : Moved(d, 0, conn, "none")
    BY <1>6, QuitFacts
  <2>2. UNCHANGED <<guestFile, readPos>> /\ (skippedEmpty => skippedEmpty')
    BY <1>6 DEF Quits, guest
  <2> QED
    BY <2>1, <2>2, ChainedMoved
<1>7. CASE Synchronize
  <2>1. stream # <<>> /\ stream' = Tail(stream)
    BY <1>7 DEF Synchronize
  <2>2. UNCHANGED <<guestFile, readPos, skippedEmpty>>
    BY <1>7 DEF Synchronize, guest, host
  <2>3. CASE inbox' = inbox
    BY <2>1, <2>2, <2>3, WireTaken, ChainedMoved
  <2>4. CASE inbox' = Append(inbox, [conn |-> conn, cmd |-> "ping"])
    <3>1. SubSeq(stream, 1 + 1, Len(stream)) = Tail(stream) /\ 1 \in 0 .. Len(stream)
      BY <2>1 DEF Types
    <3>2. Moved(1, 1, conn, "ping")
      BY <2>1, <2>4, <3>1, WireMoves
    <3> QED
      BY <2>2, <3>2, ChainedMoved
  <2> QED
    BY <1>7, <2>3, <2>4 DEF Synchronize, Send
<1>8. CASE Takes
  <2>1. stream # <<>> /\ stream' = Tail(stream) /\ inbox' = inbox
    BY <1>8 DEF Takes
  <2>2. UNCHANGED <<guestFile, readPos, skippedEmpty>>
    BY <1>8 DEF Takes, guest, host
  <2> QED
    BY <2>1, <2>2, WireTaken, ChainedMoved
<1>9. CASE RunSends
  <2>1. /\ pc = "run" /\ step < Len(Program(job)) /\ stream' = stream
        /\ inbox' = Append(inbox, [conn |-> conn, cmd |-> Program(job)[step + 1]])
    BY <1>9 DEF RunSends, Send
  <2>2. UNCHANGED <<guestFile, readPos, skippedEmpty>>
    BY <1>9 DEF RunSends, guest, host
  <2>3. job \in Jobs /\ step \in Nat
    BY <2>1 DEF Types, Flow
  <2> DEFINE x == Program(job)[step + 1]
  <2>4. x = "read" => Reading
    BY <2>1, <2>3, ProgramCommands DEF Reading
  <2>5. Moved(0, 1, conn, x)
    BY <2>1, WireSends
  <2> HIDE DEF x
  <2>6. x = "read" => (Size > 0 => Wire[Size].cmd \in Reads)
    BY <2>4 DEF Collected
  <2> QED
    BY <2>2, <2>5, <2>6, ChainedMoved
<1>10. CASE Proceeds
  <2>1. UNCHANGED <<stream, inbox, guestFile, readPos, skippedEmpty>>
    BY <1>10 DEF Proceeds, channel, guest, host
  <2> QED
    BY <2>1, WireKept, ChainedMoved
<1>11. CASE WriteHost
  <2>1. UNCHANGED <<stream, inbox, guestFile, readPos, skippedEmpty>>
    BY <1>11 DEF WriteHost, channel, guest
  <2> QED
    BY <2>1, WireKept, ChainedMoved
<1>12. CASE Relaunch
  <2>1. stream' = <<>> /\ inbox' = <<>>
    BY <1>12 DEF Relaunch
  <2>2. Size' = 0 /\ Len(stream') = 0
    BY <2>1 DEF Size
  <2> QED
    BY <2>2 DEF Chained
<1>13. CASE UNCHANGED vars
  <2>1. UNCHANGED <<stream, inbox, guestFile, readPos, skippedEmpty>>
    BY <1>13 DEF vars, channel, guest, host
  <2> QED
    BY <2>1, WireKept, ChainedMoved
<1>14. CASE Closes
  <2>1. UNCHANGED <<guestFile, readPos, skippedEmpty>> /\ Moved(1, 1, conn, "close")
    BY <1>14, CloseFacts
  <2> QED
    BY <2>1, ChainedMoved
<1>15. CASE Resume
  <2>1. PICK d \in 0 .. Len(stream) : Moved(d, 0, conn, "none")
    BY <1>15, ResumeFacts
  <2>2. UNCHANGED <<guestFile, readPos>> /\ (skippedEmpty => skippedEmpty')
    BY <1>15, ResumeFacts
  <2> QED
    BY <2>1, <2>2, ChainedMoved
<1> QED
  BY <1>1, <1>2, <1>3, <1>4, <1>5, <1>6, <1>7, <1>8, <1>9, <1>10, <1>11, <1>12, <1>13, <1>14,
     <1>15, StepCases

\* Collected holds at first.
LEMMA CollectedInitially == Init => Collected
<1> SUFFICES ASSUME Init PROVE Collected
  OBVIOUS
<1>1. Len(data) = 0
  BY DEF Init
<1> QED
  BY <1>1 DEF Init, Collected, Reading

\* Before its first answer a job has collected nothing.
LEMMA CollectedNothing ==
  ASSUME Flow', pc' \in {"idle", "dial", "sync", "probe", "ended"}, data' = <<>>
  PROVE  Collected'
<1>1. Len(data') = 0
  OBVIOUS
<1>2. job' = "writeBack" => step' = 0
  BY DEF Flow
<1> QED
  BY <1>1, <1>2 DEF Collected, Reading

\* A job other than the write-back collects nothing.
LEMMA CollectedByWriteBack ==
  ASSUME Collected, job # "writeBack", job' = job, data' = data
  PROVE  Collected'
BY DEF Collected, Reading

\* The agent's answer is the next of what is collected.
LEMMA CollectedAnswered ==
  ASSUME Types, Written, Present, Collected, AgentAnswers
  PROVE  Collected'
<1>1. /\ Size' = Size /\ Wire' = Wire /\ Len(stream) \in Nat /\ Size \in Nat
      /\ Len(stream') = Len(stream) + 1 /\ Len(stream) + 1 <= Size
      /\ \A i \in 1 .. Len(stream) : stream'[i] = stream[i]
      /\ stream'[Len(stream) + 1] = Reply
      /\ Wire[Len(stream) + 1].cmd = Reply.cmd /\ Reply.cmd = Head(inbox).cmd
  BY AgentKeepsWire, WireTypes
<1>2. UNCHANGED <<job, pc, step, waiting, data, skippedEmpty>>
  BY AgentCases DEF client, host
<1>3. Len(data) > 0 =>
        /\ Len(guestFile') = Chunks
        /\ \A i \in Len(stream') + 1 .. Size' : Wire'[i].cmd \notin Writes
  <2> SUFFICES ASSUME Len(data) > 0
               PROVE  /\ Len(guestFile') = Chunks
                      /\ \A i \in Len(stream') + 1 .. Size' : Wire'[i].cmd \notin Writes
    OBVIOUS
  <2>1. /\ Len(guestFile) = Chunks
        /\ \A i \in Len(stream) + 1 .. Size : Wire[i].cmd \notin Writes
    BY DEF Collected
  <2>2. Len(stream) + 1 \in Len(stream) + 1 .. Size
    BY <1>1
  <2>3. guestFile' = guestFile
    BY <1>1, <2>1, <2>2, AgentCases
  <2>4. \A i \in Len(stream') + 1 .. Size' : i \in Len(stream) + 1 .. Size
    BY <1>1
  <2> QED
    BY <1>1, <2>1, <2>3, <2>4
<1>4. ASSUME Reading, Len(stream') > 0, stream'[1].cmd = "read"
      PROVE  Holds(guestFile', skippedEmpty', stream'[1], Len(data'))
  <2>1. CASE Len(stream) > 0
    <3>1. 1 \in 1 .. Len(stream)
      BY <1>1, <2>1
    <3>2. stream'[1] = stream[1]
      BY <1>1, <3>1
    <3>3. guestFile' = guestFile
      BY <1>4, <3>1, <3>2, NoWriteBehindRead DEF Reads
    <3> QED
      BY <1>2, <1>4, <2>1, <3>2, <3>3 DEF Collected
  <2>2. CASE Len(stream) = 0
    <3>1. stream'[1] = Reply /\ Reply.cmd = "read" /\ Wire[1].cmd = "read"
      BY <1>1, <1>4, <2>2
    <3>2. readPos = Len(data) /\ Len(data) < Chunks
      BY <1>4, <2>2, <3>1 DEF Collected
    <3>3. /\ guestFile' = guestFile
          /\ Len(guestFile) = Chunks => Holds(guestFile, skippedEmpty, Reply, Len(data))
          /\ Len(guestFile) = 0 => Len(Reply.data) = 0 /\ Reply.eof /\ skippedEmpty
      BY <3>1, <3>2, ReadAnswer
    <3>4. CASE Len(guestFile) = Chunks
      BY <1>2, <3>1, <3>3, <3>4
    <3>5. CASE Len(guestFile) # Chunks
      <4>1. Len(guestFile) = 0
        BY <3>5, GuestFileFacts
      <4>2. Len(data) \in Nat /\ ~(Len(data) > 0)
        BY <3>5 DEF Collected, Types
      <4>3. Len(data) = 0
        BY <4>2
      <4>4. Holds(guestFile, skippedEmpty, Reply, Len(data))
        BY <3>3, <4>1, <4>3 DEF Holds
      <4> QED
        BY <1>2, <3>1, <3>3, <4>4
    <3> QED
      BY <3>4, <3>5
  <2> QED
    BY <1>1, <2>1, <2>2
<1>5. ~(Len(stream') = 0)
  BY <1>1
<1> QED
  BY <1>1, <1>2, <1>3, <1>4, <1>5 DEF Collected, Reading

\* The answer that opens the file is that of an opening, whoever asked for it,
\* unless nothing to read follows it.
LEMMA CollectedOpened ==
  ASSUME Types, Chained, Collected, Takes, job = "writeBack", pc = "run",
         waiting = "openRead", step = 0, pc' = "run", waiting' = "none", step' = 1, data' = data
  PROVE  Collected'
<1>1. /\ stream # <<>> /\ stream' = Tail(stream) /\ inbox' = inbox /\ job' = job
      /\ Head(stream).cmd \in {"open", "openRead"}
  BY DEF Takes, Decodes, IntAnswers
<1>2. UNCHANGED <<guestFile, readPos, skippedEmpty>>
  BY DEF Takes, guest, host
<1>3. Moved(1, 0, conn, "none")
  BY <1>1, WireTaken
<1>4. /\ Size \in Nat /\ Len(stream) \in Nat /\ Len(stream) <= Size /\ 1 <= Len(stream)
      /\ Len(stream') = Len(stream) - 1 /\ Size' = Size - 1
      /\ Wire[1].cmd = stream[1].cmd /\ Head(stream) = stream[1]
  <2>1. stream \in Seq(Replies) /\ Len(stream) \in Nat \ {0} /\ Head(stream) = stream[1]
    BY <1>1 DEF Types
  <2>2. 1 \in 1 .. Len(stream)
    BY <2>1
  <2>3. Len(stream') = Len(stream) - 1 /\ Size' = Size - 1 + 0
    BY <1>3 DEF Moved
  <2>4. Size \in Nat /\ Len(stream) <= Size /\ Wire[1].cmd = stream[1].cmd
    BY <2>2, WireTypes
  <2> QED
    BY <2>1, <2>3, <2>4
<1>5. /\ \A k \in 1 .. Size - 1 : Wire'[k] = Wire[k + 1]
      /\ \A k \in 1 .. Len(stream) - 1 : stream'[k] = stream[k + 1]
  BY <1>3 DEF Moved
<1>6. Len(data) = 0
  <2>1. Len(data) \in Nat
    BY DEF Types
  <2>2. ~(Len(data) > 0)
    BY DEF Collected
  <2> QED
    BY <2>1, <2>2
<1>7. Wire[Size].cmd = "openRead"
  BY <1>4 DEF Collected
<1>8. Size' > 0 => Wire'[Size'].cmd \in Reads
  <2>1. Size' > 0 => Size' \in 1 .. Size - 1 /\ Size' + 1 = Size
    BY <1>4
  <2> QED
    BY <1>5, <1>7, <2>1 DEF Reads
<1>9. ASSUME Size > 1, Wire[2].cmd = "read" PROVE stream[1].cmd = "openRead"
  <2>1. 2 \in 2 .. Size /\ 2 - 1 = 1
    BY <1>4, <1>9
  <2>2. Wire[1].cmd \in Reads
    BY <1>9, <2>1 DEF Chained
  <2> QED
    BY <1>1, <1>4, <2>2 DEF Reads
<1>10. ASSUME Len(stream') > 0, stream'[1].cmd = "read"
       PROVE  Holds(guestFile, skippedEmpty, stream'[1], 0)
  <2>1. 1 \in 1 .. Len(stream) - 1 /\ 2 \in 1 .. Len(stream) /\ 2 \in 2 .. Len(stream) /\ Size > 1 /\ 2 - 1 = 1 /\ 1 + 1 = 2
    BY <1>4, <1>10
  <2>2. stream'[1] = stream[2]
    BY <1>5, <2>1
  <2>3. Wire[2].cmd = "read"
    BY <1>10, <2>1, <2>2, WireTypes
  <2>4. stream[1].cmd = "openRead"
    BY <1>9, <2>1, <2>3
  <2> QED
    BY <1>10, <2>1, <2>2, <2>4 DEF Chained
<1>11. ASSUME Len(stream') = 0, Size' = 0 \/ Wire'[1].cmd = "read"
       PROVE  readPos = 0
  <2>1. Len(stream) = 1
    BY <1>4, <1>11
  <2>2. stream[1].cmd = "openRead"
    <3>1. CASE Size' = 0
      <4>1. Size = 1
        BY <1>4, <3>1
      <4> QED
        BY <1>4, <1>7, <4>1
    <3>2. CASE Size' # 0 /\ Wire'[1].cmd = "read"
      <4>1. 1 \in 1 .. Size - 1 /\ Size > 1 /\ 1 + 1 = 2
        BY <1>4, <3>2
      <4>2. Wire[2].cmd = "read"
        BY <1>5, <3>2, <4>1
      <4> QED
        BY <1>9, <4>1, <4>2
    <3> QED
      BY <1>11, <3>1, <3>2
  <2> QED
    BY <2>1, <2>2 DEF Chained
<1>12. Len(data') = 0 /\ 0 < Chunks
  BY <1>6, GuestAgentAssumption
<1> QED
  BY <1>1, <1>2, <1>8, <1>10, <1>11, <1>12 DEF Collected, Reading

\* A sequence followed by another one, and by one of a single element.
LEMMA Concatenated ==
  ASSUME NEW S, NEW s \in Seq(S), NEW t \in Seq(S)
  PROVE  /\ Len(s) \in Nat /\ Len(s \o t) = Len(s) + Len(t)
         /\ \A i \in 1 .. Len(s) + Len(t) :
              (s \o t)[i] = IF i <= Len(s) THEN s[i] ELSE t[i - Len(s)]
OBVIOUS

\* The same when the second has one element.
LEMMA Joined ==
  ASSUME NEW S, NEW s \in Seq(S), NEW t \in Seq(S), Len(t) = 1
  PROVE  /\ Len(s \o t) = Len(s) + 1
         /\ \A i \in 1 .. Len(s) : (s \o t)[i] = s[i]
         /\ (s \o t)[Len(s) + 1] = t[1]
<1> DEFINE n == Len(s)  m == Len(t)  u == s \o t
<1>1. /\ n \in Nat /\ m = 1 /\ Len(u) = n + m
      /\ \A i \in 1 .. n + m : u[i] = IF i <= n THEN s[i] ELSE t[i - n]
  BY Concatenated
<1> HIDE DEF n, m, u
<1>2. Len(u) = n + 1 /\ (\A i \in 1 .. n : u[i] = s[i]) /\ u[n + 1] = t[1]
  BY <1>1
<1> QED
  BY <1>2 DEF n, m, u

\* The answer taken for a read is the piece that continues what was collected,
\* or adds nothing and is followed by no read.
LEMMA CollectedRead ==
  ASSUME Types, Written, Chained, Collected, Takes, job = "writeBack", pc = "run",
         waiting = "read", step = 1, pc' = "run", waiting' = "none",
         data' = data \o Head(stream).data,
         step' = IF Head(stream).cmd = "read" /\ Head(stream).eof THEN step + 1 ELSE step
  PROVE  Collected'
<1> DEFINE a == stream[1]
<1>1. /\ stream # <<>> /\ stream' = Tail(stream) /\ inbox' = inbox /\ job' = job
      /\ Head(stream).cmd \notin {"open", "openRead"}
  BY DEF Takes, Decodes, IntAnswers
<1>2. UNCHANGED <<guestFile, readPos, skippedEmpty>>
  BY DEF Takes, guest, host
<1>3. Moved(1, 0, conn, "none")
  BY <1>1, WireTaken
<1>4. /\ Size \in Nat /\ Len(stream) \in Nat /\ Len(stream) <= Size /\ 1 <= Len(stream)
      /\ Len(stream') = Len(stream) - 1 /\ Size' = Size - 1
      /\ Wire[1].cmd = a.cmd /\ Head(stream) = a /\ a \in Replies
  <2>1. stream \in Seq(Replies) /\ Len(stream) \in Nat \ {0} /\ Head(stream) = stream[1] /\ stream[1] \in Replies
    BY <1>1 DEF Types
  <2>2. 1 \in 1 .. Len(stream)
    BY <2>1
  <2>3. Len(stream') = Len(stream) - 1 /\ Size' = Size - 1 + 0
    BY <1>3 DEF Moved
  <2>4. Size \in Nat /\ Len(stream) <= Size /\ Wire[1].cmd = stream[1].cmd
    BY <2>2, WireTypes
  <2> QED
    BY <2>1, <2>3, <2>4
<1>5. /\ \A k \in 1 .. Size - 1 : Wire'[k] = Wire[k + 1]
      /\ \A k \in 1 .. Len(stream) - 1 : stream'[k] = stream[k + 1]
  BY <1>3 DEF Moved
<1>6. 1 \in 1 .. Len(stream)
  BY <1>4
<1>7. /\ Reading /\ Len(data) < Chunks
      /\ Size > 0 => Wire[Size].cmd \in Reads
      /\ a.cmd = "read" => Holds(guestFile, skippedEmpty, a, Len(data))
  BY <1>4 DEF Collected, Reading
<1>8. Size' > 0 => Wire'[Size'].cmd \in Reads
  <2>1. Size' > 0 => Size' \in 1 .. Size - 1 /\ Size' + 1 = Size /\ Size > 0
    BY <1>4
  <2> QED
    BY <1>5, <1>7, <2>1
<1>9. data \in Seq(Pieces) /\ Len(data) \in Nat /\ a.data \in Seq(Pieces) /\ Chunks \in Nat \ {0}
  BY <1>4, GuestAgentAssumption DEF Types, Replies
<1>d. data' = data \o a.data
  BY <1>4
<1>e. step' = IF a.cmd = "read" /\ a.eof THEN 2 ELSE 1
  BY <1>4
\* what follows an answer to a read, and what follows another answer
<1>10. ASSUME Len(stream') > 0, stream'[1].cmd = "read"
       PROVE  /\ stream'[1] = stream[2] /\ 2 \in 2 .. Len(stream) /\ stream[2].cmd = "read"
              /\ Wire[1].cmd \in Reads
  <2>1. 1 \in 1 .. Len(stream) - 1 /\ 2 \in 1 .. Len(stream) /\ 2 \in 2 .. Len(stream) /\ 2 \in 2 .. Size /\ 2 - 1 = 1 /\ 1 + 1 = 2
    BY <1>4, <1>10
  <2>2. stream'[1] = stream[2]
    BY <1>5, <2>1
  <2>3. Wire[2].cmd = "read"
    BY <1>10, <2>1, <2>2, WireTypes
  <2>4. Wire[1].cmd \in Reads
    BY <2>1, <2>3 DEF Chained
  <2> QED
    BY <1>10, <2>1, <2>2, <2>4
<1>11. CASE a.cmd # "read"
  <2>1. data' = data
    <3>1. Len(a.data) = 0
      BY <1>6, <1>11 DEF Chained
    <3> DEFINE more == a.data
    <3>2. more \in Seq(Pieces) /\ Len(more) = 0 /\ data' = data \o more
      BY <1>9, <1>d, <3>1
    <3> HIDE DEF more
    <3>3. more = <<>>
      BY <3>2
    <3> QED
      BY <1>9, <3>2, <3>3
  <2>2. step' = 1
    BY <1>11, <1>e
  <2>3. Wire[1].cmd \notin Reads
    BY <1>1, <1>4, <1>11 DEF Reads
  <2>4. ~(Len(stream') > 0 /\ stream'[1].cmd = "read")
    BY <1>10, <2>3
  <2>5. ~(Size' = 0 \/ Wire'[1].cmd = "read")
    <3>1. Size # 1
      BY <1>4, <1>7, <2>3
    <3>2. Size > 1 /\ Size' # 0
      BY <1>4, <3>1
    <3>3. 1 \in 1 .. Size - 1 /\ 2 \in 2 .. Size /\ 2 - 1 = 1 /\ 1 + 1 = 2
      BY <1>4, <3>2
    <3>4. Wire'[1] = Wire[2]
      BY <1>5, <3>3
    <3>5. Wire[2].cmd # "read"
      BY <2>3, <3>3 DEF Chained
    <3> QED
      BY <3>2, <3>4, <3>5
  <2>6. Len(data) > 0 =>
          /\ Len(guestFile) = Chunks
          /\ \A i \in 1 .. Len(data) : data[i].piece = i
          /\ \A i \in Len(stream') + 1 .. Size' : Wire'[i].cmd \notin Writes
    BY <1>3, NoWritesMoved DEF Collected
  <2> QED
    BY <1>1, <1>2, <1>7, <1>8, <2>1, <2>2, <2>4, <2>5, <2>6 DEF Collected, Reading
<1>12. CASE a.cmd = "read" /\ Len(a.data) = 0
  <2>1. Len(data) = 0 /\ a.eof /\ skippedEmpty
    BY <1>7, <1>12 DEF Holds
  <2>2. Len(data') = 0
    <3> DEFINE more == a.data
    <3>1. more \in Seq(Pieces) /\ Len(more) = 0 /\ data' = data \o more
      BY <1>9, <1>d, <1>12
    <3> HIDE DEF more
    <3> QED
      BY <1>9, <2>1, <3>1
  <2>3. step' = 2 /\ ~(step' = 1)
    BY <1>12, <1>e, <2>1
  <2>4. ~Reading'
    BY <2>3 DEF Reading
  <2>5. ~(Len(data') > 0) /\ skippedEmpty' /\ waiting' # "openRead"
    BY <1>2, <2>1, <2>2
  <2> QED
    BY <2>2, <2>4, <2>5 DEF Collected
<1>13. CASE a.cmd = "read" /\ Len(a.data) # 0
  <2>1. /\ Len(guestFile) = Chunks /\ Len(a.data) = 1 /\ a.data[1].piece = Len(data) + 1
        /\ a.eof <=> Len(data) + 1 = Chunks
    BY <1>7, <1>13 DEF Holds
  <2>2. /\ Len(data') = Len(data) + 1
        /\ \A i \in 1 .. Len(data) : data'[i] = data[i]
        /\ data'[Len(data) + 1] = a.data[1]
    <3> DEFINE more == a.data
    <3>1. more \in Seq(Pieces) /\ Len(more) = 1 /\ data' = data \o more
      BY <1>9, <1>d, <2>1
    <3> HIDE DEF more
    <3>2. /\ Len(data') = Len(data) + 1
          /\ \A i \in 1 .. Len(data) : data'[i] = data[i]
          /\ data'[Len(data) + 1] = more[1]
      BY <1>9, <3>1, Joined
    <3> QED
      BY <3>2 DEF more
  <2>3. ASSUME NEW i \in 1 .. Len(data') PROVE data'[i].piece = i
    <3>1. CASE i = Len(data) + 1
      BY <2>1, <2>2, <3>1
    <3>2. CASE i # Len(data) + 1
      <4>1. i \in 1 .. Len(data)
        BY <1>9, <2>2, <3>2
      <4>2. Len(data) > 0
        BY <1>9, <4>1
      <4> QED
        BY <2>2, <4>1, <4>2 DEF Collected
    <3> QED
      BY <3>1, <3>2
  <2>4. \A i \in Len(stream') + 1 .. Size' : Wire'[i].cmd \notin Writes
    <3>1. \A i \in Len(stream) + 1 .. Size : i \in 1 .. Size /\ 1 < i
      BY <1>4
    <3>2. 1 \in 1 .. Size /\ Wire[1].cmd \in Reads
      BY <1>4, <1>13 DEF Reads
    <3>3. \A i \in Len(stream) + 1 .. Size : Wire[i].cmd \notin Writes
      BY <3>1, <3>2 DEF Written
    <3> QED
      BY <1>3, <3>3, NoWritesMoved
  <2>5. Len(data') > 0 /\ Len(data') \in Nat
    BY <1>9, <2>2
  <2>6. CASE a.eof
    <3>1. step' = 2 /\ Len(data') = Chunks
      BY <1>13, <1>e, <2>1, <2>2, <2>6
    <3> QED
      BY <1>1, <1>2, <2>1, <2>3, <2>4, <3>1 DEF Collected, Reading
  <2>7. CASE ~a.eof
    <3>1. step' = 1
      BY <1>e, <2>7
    <3>2. Len(data') < Chunks
      BY <1>7, <1>9, <2>1, <2>2, <2>7
    <3>3. ASSUME Len(stream') > 0, stream'[1].cmd = "read"
          PROVE  Holds(guestFile, skippedEmpty, stream'[1], Len(data'))
      <4>1. /\ stream'[1] = stream[2] /\ 2 \in 2 .. Len(stream) /\ stream[2].cmd = "read"
        BY <1>10, <3>3
      <4>2. stream[2 - 1] = a
        OBVIOUS
      <4>3. Holds(guestFile, skippedEmpty, stream[2], a.data[1].piece)
        BY <1>13, <2>7, <4>1, <4>2 DEF Chained
      <4> QED
        BY <2>1, <2>2, <4>1, <4>3
    <3>4. Len(stream') = 0 => readPos = Len(data')
      <4>1. Len(stream') = 0 => Len(stream) = 1
        BY <1>4
      <4>2. Len(stream) = 1 => readPos = a.data[1].piece
        BY <1>13, <2>7 DEF Chained
      <4> QED
        BY <2>1, <2>2, <4>1, <4>2
    <3> QED
      BY <1>1, <1>2, <1>8, <2>1, <2>3, <2>4, <3>1, <3>2, <3>3, <3>4 DEF Collected, Reading
  <2> QED
    BY <2>6, <2>7
<1> QED
  BY <1>11, <1>12, <1>13

\* The reads of the file as far as they went, nothing of them moved.
LEMMA CollectedSame ==
  ASSUME Collected, UNCHANGED <<job, step, waiting, data, guestFile, readPos, skippedEmpty, stream, inbox>>,
         pc' = pc \/ (pc = "run" /\ pc' = "host")
  PROVE  Collected'
<1>1. Size' = Size /\ Wire' = Wire
  BY WireSame
<1>2. Reading' => Reading
  BY DEF Reading
<1> QED
  BY <1>1, <1>2 DEF Collected

\* A write-back sends no command that writes, and its reads follow an opening.
LEMMA CollectedSent ==
  ASSUME Types, Flow, Collected, RunSends, job = "writeBack"
  PROVE  Collected'
<1> DEFINE x == Program(job)[step + 1]
<1>1. /\ pc = "run" /\ step < Len(Program(job)) /\ step \in Nat /\ job \in Jobs
      /\ stream' = stream /\ waiting' = x
      /\ inbox' = Append(inbox, [conn |-> conn, cmd |-> x])
      /\ UNCHANGED <<job, pc, step, data>>
  BY DEF RunSends, Send, Types, Jobs
<1>2. UNCHANGED <<guestFile, readPos, skippedEmpty>>
  BY DEF RunSends, guest, host
<1>3. x \notin Writes /\ (step = 1 => x = "read")
  BY <1>1, ProgramCommands DEF Writes
<1>4. Moved(0, 1, conn, x)
  BY <1>1, WireSends
<1> HIDE DEF x
<1>5. /\ Size \in Nat /\ Size' = Size + 1 /\ Wire'[Size'].cmd = x
      /\ \A i \in 1 .. Size : Wire'[i] = Wire[i]
  <2>1. Size \in Nat
    BY WireTypes
  <2>2. /\ Size' = Size - 0 + 1 /\ Wire'[Size'] = [conn |-> conn, cmd |-> x]
        /\ \A i \in 1 .. Size - 0 : Wire'[i] = Wire[i + 0]
    BY <1>4 DEF Moved
  <2>3. \A i \in 1 .. Size : i \in 1 .. Size - 0 /\ i + 0 = i
    BY <2>1
  <2>4. \A i \in 1 .. Size : Wire'[i] = Wire[i]
    BY <2>2, <2>3
  <2> QED
    BY <2>1, <2>2, <2>4
<1>6. Len(data) > 0 => \A i \in Len(stream') + 1 .. Size' : Wire'[i].cmd \notin Writes
  BY <1>3, <1>4, NoWritesMoved DEF Collected
<1>7. waiting' = "openRead" => Wire'[Size'].cmd = "openRead"
  BY <1>1, <1>5
<1>8. Reading' => Reading /\ Wire'[Size'].cmd \in Reads
  BY <1>1, <1>3, <1>5 DEF Reading, Reads
<1>9. Size' = 0 \/ Wire'[1].cmd = "read" => Size = 0 \/ Wire[1].cmd = "read"
  BY <1>5
<1> QED
  BY <1>1, <1>2, <1>6, <1>7, <1>8, <1>9 DEF Collected

\* Every step keeps Collected.
LEMMA CollectedKept ==
  ASSUME Types, Flow, Flow', Written, Present, Chained, Collected, [Next]_vars
  PROVE  Collected'
\* before the program runs nothing is collected
<1>e. ASSUME pc \notin {"run", "host"} PROVE Len(data) = 0 /\ data = <<>>
  <2>1. data \in Seq(Pieces) /\ ~(Len(data) > 0)
    BY <1>e DEF Collected, Types
  <2>2. Len(data) = 0
    BY <2>1
  <2> QED
    BY <2>1, <2>2
<1>1. CASE AgentAnswers
  BY <1>1, CollectedAnswered
<1>2. CASE GuestEdits
  <2>1. UNCHANGED <<job, pc, step, waiting, data, stream, inbox, skippedEmpty, readPos>>
    BY <1>2 DEF GuestEdits, client, channel, host
  <2>2. Size' = Size /\ Wire' = Wire
    BY <2>1, WireSame
  <2>3. Len(guestFile') = Chunks
    BY <1>2, FileFacts DEF GuestEdits
  <2>4. Holds(guestFile, skippedEmpty, stream[1], Len(data)) =>
          Holds(guestFile', skippedEmpty, stream[1], Len(data))
    BY <2>3, HoldsKept
  <2> QED
    BY <2>1, <2>2, <2>3, <2>4 DEF Collected, Reading
<1>3. CASE \E j \in Jobs : Begin(j)
  <2>1. pc = "idle" /\ pc' = "dial" /\ data' = data
    BY <1>3 DEF Begin
  <2> QED
    BY <1>e, <2>1, CollectedNothing
<1>4. CASE Dial
  <2>1. pc = "dial" /\ pc' = "sync" /\ data' = data
    BY <1>4 DEF Dial
  <2> QED
    BY <1>e, <2>1, CollectedNothing
<1>5. CASE Redials
  <2>1. pc \in {"sync", "probe"} /\ pc' = "dial" /\ data' = data
    BY <1>5 DEF Redials
  <2> QED
    BY <1>e, <2>1, CollectedNothing
<1>6. CASE Quits
  BY <1>6, QuitFacts, CollectedNothing
<1>7. CASE Synchronize
  <2>1. pc = "sync" /\ pc' \in {"sync", "probe"} /\ data' = data
    BY <1>7 DEF Synchronize
  <2> QED
    BY <1>e, <2>1, CollectedNothing
<1>8. CASE Takes
  <2>1. job' = job /\ stream # <<>> /\ stream' = Tail(stream) /\ inbox' = inbox /\ waiting # "none"
    BY <1>8 DEF Takes
  <2>2. UNCHANGED <<guestFile, skippedEmpty>>
    BY <1>8 DEF Takes, guest, host
  <2>3. CASE pc = "probe" /\ pc' = "run" /\ waiting' = "none" /\ UNCHANGED <<step, data>>
    <3>1. Len(data') = 0 /\ (job' = "writeBack" => step' = 0)
      BY <1>e, <2>1, <2>3 DEF Flow
    <3> QED
      BY <2>3, <3>1 DEF Collected, Reading
  <2>4. CASE job \in {"provision", "exec", "shutdownExec"} /\ data' = data
    BY <2>1, <2>4, CollectedByWriteBack
  <2>5. CASE /\ pc = "run" /\ waiting = "read" /\ job = "writeBack" /\ step = 1
             /\ pc' = "run" /\ waiting' = "none"
             /\ data' = data \o Head(stream).data
             /\ step' = IF Head(stream).cmd = "read" /\ Head(stream).eof THEN step + 1 ELSE step
    BY <1>8, <2>5, CollectedRead
  <2>6. CASE /\ pc = "run" /\ waiting \notin {"ping", "status", "read"}
             /\ pc' = "run" /\ waiting' = "none" /\ step' = step + 1 /\ data' = data
    <3>1. CASE job # "writeBack"
      BY <2>1, <2>6, <3>1, CollectedByWriteBack
    <3>2. CASE job = "writeBack"
      <4>1. /\ step \in Nat /\ job \in Jobs /\ step < Len(Program(job)) /\ waiting = Program(job)[step + 1]
        BY <2>1, <2>6, <3>2 DEF Types, Flow, Jobs
      <4>2. step # 1 /\ step < 3 /\ (step = 0 => waiting = "openRead")
        BY <2>6, <3>2, <4>1, ProgramCommands, ProgramLengths
      <4>3. step = 0 \/ step = 2
        BY <4>1, <4>2
      <4>4. CASE step = 0
        <5>1. step' = 1 /\ waiting = "openRead"
          BY <2>6, <4>2, <4>4
        <5> QED
          BY <1>8, <2>6, <3>2, <4>4, <5>1, CollectedOpened
      <4>5. CASE step = 2
        <5>1. step' = 3 /\ ~(step' = 1)
          BY <2>6, <4>5
        <5>2. ~Reading'
          BY <5>1 DEF Reading
        <5>3. Moved(1, 0, conn, "none")
          BY <2>1, WireTaken
        <5>4. Len(data) > 0 =>
                \A i \in Len(stream') + 1 .. Size' : Wire'[i].cmd \notin Writes
          BY <5>3, NoWritesMoved DEF Collected
        <5>5. Len(data) = Chunks \/ (Len(data) = 0 /\ skippedEmpty)
          BY <3>2, <4>5 DEF Collected
        <5>6. step' >= 1
          BY <5>1
        <5> QED
          BY <2>1, <2>2, <2>6, <3>2, <5>2, <5>4, <5>5, <5>6 DEF Collected
      <4> QED
        BY <4>3, <4>4, <4>5
    <3> QED
      BY <3>1, <3>2
  <2> QED
    BY <1>8, <2>3, <2>4, <2>5, <2>6, TakeCases
<1>9. CASE RunSends
  <2>1. CASE job # "writeBack"
    BY <1>9, <2>1, CollectedByWriteBack DEF RunSends
  <2>2. CASE job = "writeBack"
    BY <1>9, <2>2, CollectedSent
  <2> QED
    BY <2>1, <2>2
<1>10. CASE Proceeds
  <2>1. UNCHANGED <<job, step, waiting, data, guestFile, readPos, skippedEmpty, stream, inbox>>
    BY <1>10 DEF Proceeds, channel, guest, host
  <2>2. CASE pc = "decide"
    <3>1. job # "writeBack"
      BY <2>2 DEF Flow
    <3> QED
      BY <2>1, <3>1, CollectedByWriteBack
  <2>3. CASE pc = "run" /\ pc' = "host"
    BY <2>1, <2>3, CollectedSame
  <2> QED
    BY <1>10, <2>2, <2>3 DEF Proceeds
<1>11. CASE WriteHost
  <2>1. UNCHANGED <<job, pc, step, waiting, data, guestFile, readPos, skippedEmpty, stream, inbox>>
    BY <1>11 DEF WriteHost, client, channel, guest
  <2> QED
    BY <2>1, CollectedSame
<1>12. CASE Relaunch
  <2>1. pc' = "idle" /\ data' = <<>>
    BY <1>12 DEF Relaunch
  <2> QED
    BY <2>1, CollectedNothing
<1>13. CASE UNCHANGED vars
  <2>1. UNCHANGED <<job, pc, step, waiting, data, guestFile, readPos, skippedEmpty, stream, inbox>>
    BY <1>13 DEF vars, client, channel, guest, host
  <2> QED
    BY <2>1, CollectedSame
<1>14. CASE Closes
  <2>1. /\ pc' = "closing" /\ data' = <<>> /\ waiting' = "close"
        /\ job' = "writeBack" => step' = 1
    BY <1>14, CloseFacts
  <2>2. Len(data') = 0 /\ (job' = "writeBack" => ~(step' >= 2))
    BY <2>1
  <2> QED
    BY <2>1, <2>2 DEF Collected, Reading
<1>15. CASE Resume
  BY <1>15, ResumeFacts, CollectedNothing
<1> QED
  BY <1>1, <1>2, <1>3, <1>4, <1>5, <1>6, <1>7, <1>8, <1>9, <1>10, <1>11, <1>12, <1>13, <1>14,
     <1>15, StepCases

-----------------------------------------------------------------------------
(* The host file *)

\* What reaches the rename is the whole of what the guest had.
LEMMA CollectedWhole ==
  ASSUME Types, Flow, Collected, pc = "host"
  PROVE  \/ Len(data) = Chunks /\ \A i \in 1 .. Chunks : data[i].piece = i
         \/ data = <<>> /\ skippedEmpty
<1>1. job = "writeBack" /\ step = 3 /\ step >= 2
  BY DEF Flow
<1>2. Len(data) = Chunks \/ (Len(data) = 0 /\ skippedEmpty)
  BY <1>1 DEF Collected
<1>3. data \in Seq(Pieces) /\ Chunks \in Nat \ {0}
  BY GuestAgentAssumption DEF Types
<1>4. CASE Len(data) = Chunks
  <2>1. Len(data) > 0
    BY <1>3, <1>4
  <2> QED
    BY <1>4, <2>1 DEF Collected
<1>5. CASE Len(data) = 0 /\ skippedEmpty
  BY <1>3, <1>5
<1> QED
  BY <1>2, <1>4, <1>5

\* The host file is whole at first.
LEMMA HostWholeInitially == Init => HostFileWhole
BY FileFacts DEF Init, HostFileWhole

\* Every step keeps the host file whole: only the rename replaces it.
LEMMA HostWholeKept ==
  ASSUME Types, Flow, Collected, HostFileWhole, [Next]_vars
  PROVE  HostFileWhole'
<1>0. ASSUME hostFile' = hostFile, skippedEmpty => skippedEmpty' PROVE HostFileWhole'
  BY <1>0 DEF HostFileWhole
<1>1. CASE Quits
  <2>1. skippedEmpty => skippedEmpty'
    BY <1>1 DEF Quits
  <2>2. CASE hostFile' = hostFile
    BY <1>0, <2>1, <2>2
  <2>3. CASE pc = "host" /\ hostFile' = data
    BY <2>1, <2>3, CollectedWhole DEF HostFileWhole
  <2> QED
    BY <1>1, <2>2, <2>3 DEF Quits
<1>2. CASE Redials \/ Takes \/ RunSends \/ Proceeds
  BY <1>0, <1>2 DEF Redials, Takes, RunSends, Proceeds, host
<1>3. CASE AgentAnswers \/ GuestEdits \/ (\E j \in Jobs : Begin(j)) \/ Dial \/ Synchronize
  BY <1>0, <1>3 DEF AgentAnswers, GuestEdits, Begin, Dial, Synchronize, host
<1>4. CASE WriteHost \/ Relaunch \/ UNCHANGED vars
  BY <1>0, <1>4 DEF WriteHost, WriteTemp, Relaunch, vars, host
<1>5. CASE Closes \/ Resume
  BY <1>0, <1>5, CloseFacts, ResumeFacts
<1> QED
  BY <1>1, <1>2, <1>3, <1>4, <1>5, StepCases

-----------------------------------------------------------------------------
(* The theorems *)

\* AgentInv is an invariant.
LEMMA AgentInvariance == Spec => []AgentInv
<1>1. Init => AgentInv
  BY TypesInitially, FlowInitially, PartedInitially, WrittenInitially, PresentInitially,
     ChainedInitially, CollectedInitially, HostWholeInitially DEF AgentInv
<1>2. AgentInv /\ [Next]_vars => AgentInv'
  <2> SUFFICES ASSUME AgentInv, [Next]_vars PROVE AgentInv'
    OBVIOUS
  <2>1. Types /\ Flow /\ Parted /\ Written /\ Present /\ Chained /\ Collected /\ HostFileWhole
    BY DEF AgentInv
  <2>2. Types' /\ Flow'
    BY <2>1, TypesKept, FlowKept
  <2>3. Parted' /\ Written' /\ Present'
    BY <2>1, <2>2, PartedKept, WrittenKept, PresentKept
  <2>4. Chained' /\ Collected' /\ HostFileWhole'
    BY <2>1, <2>2, ChainedKept, CollectedKept, HostWholeKept
  <2> QED
    BY <2>2, <2>3, <2>4 DEF AgentInv
<1> QED
  BY <1>1, <1>2, PTL DEF Spec

\* The state of the guest agent's clients, of the channel and of the files stays
\* in its range, whatever connection is cut and whenever virtle dies: what the
\* client waits for is a command, what it collects are pieces of a file.
THEOREM GuestAgentTypeCorrect == Spec => []TypeOK
<1>1. AgentInv => TypeOK
  BY DEF AgentInv, Types, TypeOK
<1> QED
  BY <1>1, AgentInvariance, PTL

\* No connection of qga's socketClient takes answers both to itself and to an
\* earlier one, for any number of connections and any answers left unread: its
\* own synchronization answer parts the two on the wire, and a client that took
\* a stale one for it (every connection uses the same identifier) fails on the
\* 0xff that starts its own.
THEOREM ConnectionsNeverMix == Spec => []StaleNeverMixes
<1>1. AgentInv => StaleNeverMixes
  <2> SUFFICES ASSUME AgentInv PROVE StaleNeverMixes
    OBVIOUS
  <2>1. Types /\ Parted
    BY DEF AgentInv
  <2>2. answers \subseteq {"own"} \/ answers \subseteq {"stale"}
    BY <2>1 DEF Parted, Types
  <2> QED
    BY <2>2 DEF StaleNeverMixes
<1> QED
  BY <1>1, AgentInvariance, PTL

\* A write-back never leaves a torn host file, whatever the size of the file,
\* the connections cut during the reads and the moment of a crash: what reaches
\* WriteHostFileAtomic is all of the guest file in its order, although the
\* answers may be those to the reads of an earlier write-back, and nothing else
\* replaces the host file.  A resumed launch, which writes back what it did not
\* provision, adds one case: the guest file that a cut-off provisioning left empty.
THEOREM HostFileStaysWhole == Spec => []HostFileWhole
<1>1. AgentInv => HostFileWhole
  BY DEF AgentInv
<1> QED
  BY <1>1, AgentInvariance, PTL
=============================================================================
