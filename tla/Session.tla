------------------------------ MODULE Session ------------------------------
(***************************************************************************)
(* The session layer (internal/session): clients register, subscribe,     *)
(* switch format and go away, while each symbol's runner fans its batches *)
(* out with Manager.Broadcast and each client's writePump drains its send *)
(* queue onto the socket.                                                 *)
(*                                                                         *)
(* Concurrency as in the code: every client has a readPump and a          *)
(* writePump goroutine, every symbol a runner goroutine calling Broadcast *)
(* after each Step.  Broadcast holds the manager's read lock for the      *)
(* whole client walk, so Register and Unregister (write lock) happen only *)
(* between walks.  Within a walk every Client method takes the client's   *)
(* own lock, so IsSubscribed, Format and each Send are separate steps     *)
(* that readPump and writePump may interleave with.                       *)
(*                                                                         *)
(* Data is abstracted to what the properties tell apart: a data frame is  *)
(* (symbol, batch number, position in the batch, encoding); a stock-      *)
(* directory frame has batch number 0.                                    *)
(***************************************************************************)
EXTENDS Naturals, Sequences, FiniteSets

CONSTANTS
  Clients,      \* connections, each accepted at most once (ids are fresh)
  Symbols,      \* locate codes with a runner
  QueueCap,     \* SendBufferSize, the capacity of a client's sendCh
  BatchLen,     \* messages in one Step batch handed to Broadcast
  MaxBatches,   \* bound: batches broadcast per symbol
  MaxControls,  \* bound: control messages handled per client
  NoClient      \* Broadcast is not sending to any client

ASSUME NoClient \notin Clients

Formats == {"json", "binary"}

VARIABLES
  registered,  \* the keys of m.clients
  conn,        \* "new" before the upgrade, "open", "closed" after Close
  readP,       \* readPump goroutine: "none", "running", "exited"
  writeP,      \* writePump goroutine: "none", "running", "exited"
  format,      \* c.format
  symbols,     \* c.symbols (the set of locates mapped to true)
  allSymbols,  \* c.allSymbols
  dirTo,       \* locates whose directory handleControl is about to send
  controls,    \* control messages handled so far (bounded)
  sendCh,      \* c.sendCh, FIFO of frames
  dropped,     \* c.Dropped
  lastWrite,   \* ghost: the last frame written to the socket, with its type
  lastPos,     \* ghost: per symbol, (batch, position) of the last data frame
  wanted,      \* ghost: the subscription the client's requests ask for
  bc           \* per symbol, the runner's Broadcast in progress

vars == <<registered, conn, readP, writeP, format, symbols, allSymbols, dirTo,
          controls, sendCh, dropped, lastWrite, lastPos, wanted, bc>>
writtenVars == <<lastWrite, lastPos>>
clientVars == <<format, symbols, allSymbols, dirTo, controls, wanted>>

Frame == [sym : Symbols, seq : 0..MaxBatches, pos : 0..BatchLen, enc : Formats]
NoWrite == [frame |-> [sym |-> 0, seq |-> 0, pos |-> 0, enc |-> "none"],
           type |-> "none"]
FrameType(f) == IF f = "binary" THEN "binary" ELSE "text"

\* Client.Format, read under the client's lock.
Format(c) == format[c]

\* Client.IsSubscribed
IsSubscribed(c, s) == allSymbols[c] \/ s \in symbols[c]

\* The client methods handleControl calls, each under the client's lock.
ClientSetFormat(c, f) == format' = [format EXCEPT ![c] = f]
ClientSubscribe(c, locs) == symbols' = [symbols EXCEPT ![c] = @ \cup locs]
ClientSubscribeAll(c) == allSymbols' = [allSymbols EXCEPT ![c] = TRUE]
ClientUnsubscribe(c, locs) == symbols' = [symbols EXCEPT ![c] = @ \ locs]

\* Client.Close: closes done and the socket (once).
Close(c) == conn' = [conn EXCEPT ![c] = "closed"]

\* ResolveTickers for a request naming known tickers and no "*": a
\* non-empty set of locates.
ResolvedLocates == SUBSET Symbols \ {{}}

\* Mutation: a send that never finds the channel full (an unbounded queue).
SendNoCap(c, f) ==
  /\ sendCh' = [sendCh EXCEPT ![c] = Append(@, f)]
  /\ UNCHANGED dropped

\* Client.Send: a non-blocking channel send; a full channel drops the frame
\* and counts it.
Send(c, f) ==
  IF Len(sendCh[c]) < QueueCap
    THEN /\ sendCh' = [sendCh EXCEPT ![c] = Append(@, f)]
         /\ UNCHANGED dropped
    ELSE /\ dropped' = [dropped EXCEPT ![c] = @ + 1]
         /\ UNCHANGED sendCh

\* No Broadcast holds the read lock: m.mu.Lock() can be taken.
NoWalk == \A s \in Symbols : bc[s].todo = {} /\ bc[s].at = NoClient

\* Manager.Register and Manager.Unregister, under the write lock.
Register(c) ==
  /\ NoWalk
  /\ registered' = registered \cup {c}
  /\ conn' = [conn EXCEPT ![c] = "open"]

Unregister(c) ==
  /\ NoWalk
  /\ registered' = registered \ {c}
  /\ Close(c)

(***************************************************************************)
(* Handler: Upgrade, Register under the write lock, start both pumps.     *)
(***************************************************************************)
Connect(c) ==
  /\ conn[c] = "new"
  /\ Register(c)
  /\ readP' = [readP EXCEPT ![c] = "running"]
  /\ writeP' = [writeP EXCEPT ![c] = "running"]
  /\ UNCHANGED <<clientVars, sendCh, dropped, writtenVars, bc>>

\* readPump is between two ReadMessage calls and may take another message.
Reading(c) ==
  /\ readP[c] = "running" /\ dirTo[c] = {} /\ controls[c] < MaxControls

(***************************************************************************)
(* handleControl, "subscribe": ResolveTickers, then SubscribeAll or       *)
(* Subscribe under the client lock; the stock directory follows as a      *)
(* separate step (SendDirectory).  Tickers that resolve to nothing leave  *)
(* the state alone and are not a step.                                    *)
(***************************************************************************)
SubscribeAll(c) ==
  /\ Reading(c)
  /\ ClientSubscribeAll(c)
  /\ dirTo' = [dirTo EXCEPT ![c] = Symbols]
  /\ wanted' = [wanted EXCEPT ![c] = Symbols]
  /\ controls' = [controls EXCEPT ![c] = @ + 1]
  /\ UNCHANGED <<registered, conn, readP, writeP, format, symbols, sendCh,
                 dropped, writtenVars, bc>>

Subscribe(c) ==
  \E locs \in ResolvedLocates :
    /\ Reading(c)
    /\ ClientSubscribe(c, locs)
    /\ dirTo' = [dirTo EXCEPT ![c] = locs]
    /\ wanted' = [wanted EXCEPT ![c] = @ \cup locs]
    /\ controls' = [controls EXCEPT ![c] = @ + 1]
    /\ UNCHANGED <<registered, conn, readP, writeP, format, allSymbols,
                   sendCh, dropped, writtenVars, bc>>

\* sendStockDirectory + SendToClient: one directory frame per locate, in the
\* client's current format, with no subscription check.
RECURSIVE SendAll(_, _, _)
SendAll(q, n, fs) ==
  IF fs = <<>> THEN <<q, n>>
  ELSE IF Len(q) < QueueCap THEN SendAll(Append(q, Head(fs)), n, Tail(fs))
  ELSE SendAll(q, n + 1, Tail(fs))

SendDirectory(c) ==
  /\ dirTo[c] # {}
  /\ LET fs == [i \in 1..Cardinality(dirTo[c]) |->
                  [sym |-> CHOOSE s \in dirTo[c] :
                             Cardinality({t \in dirTo[c] : t < s}) = i - 1,
                   seq |-> 0, pos |-> 0, enc |-> Format(c)]]
         r == SendAll(sendCh[c], dropped[c], fs)
     IN /\ sendCh' = [sendCh EXCEPT ![c] = r[1]]
        /\ dropped' = [dropped EXCEPT ![c] = r[2]]
  /\ dirTo' = [dirTo EXCEPT ![c] = {}]
  /\ UNCHANGED <<registered, conn, readP, writeP, format, symbols, allSymbols,
                 controls, writtenVars, wanted, bc>>

\* handleControl, "unsubscribe": deletes the locates from c.symbols only.
Unsubscribe(c) ==
  \E locs \in ResolvedLocates :
    /\ Reading(c)
    /\ ClientUnsubscribe(c, locs)
    /\ wanted' = [wanted EXCEPT ![c] = @ \ locs]
    /\ controls' = [controls EXCEPT ![c] = @ + 1]
    /\ UNCHANGED <<registered, conn, readP, writeP, format, allSymbols, dirTo,
                   sendCh, dropped, writtenVars, bc>>

\* handleControl, "format" with "binary" or "json": Client.SetFormat.
SetFormat(c) ==
  \E f \in Formats :
    /\ Reading(c)
    /\ ClientSetFormat(c, f)
    /\ controls' = [controls EXCEPT ![c] = @ + 1]
    /\ UNCHANGED <<registered, conn, readP, writeP, symbols, allSymbols, dirTo,
                   wanted, sendCh, dropped, writtenVars, bc>>

(***************************************************************************)
(* readPump: ReadMessage fails (peer gone, deadline, or the socket closed *)
(* by writePump); the deferred Unregister deletes the client under the    *)
(* write lock and Closes it.                                              *)
(***************************************************************************)
ReadExit(c) ==
  /\ readP[c] = "running" /\ dirTo[c] = {}
  /\ readP' = [readP EXCEPT ![c] = "exited"]
  /\ Unregister(c)
  /\ UNCHANGED <<writeP, clientVars, sendCh, dropped, writtenVars, bc>>

(***************************************************************************)
(* writePump.  WriteFrame takes the head of sendCh and writes it with the *)
(* frame type of the client's format as it is now.  WriteExit is every   *)
(* way the loop returns: a failed data or ping write, or Done closed; the *)
(* deferred Close closes the socket.  Frames left in sendCh are never     *)
(* written.  A successful ping changes nothing and is not a step.         *)
(***************************************************************************)
WriteFrame(c) ==
  /\ writeP[c] = "running" /\ conn[c] = "open" /\ sendCh[c] # <<>>
  /\ lastWrite' = [lastWrite EXCEPT ![c] =
                     [frame |-> Head(sendCh[c]), type |-> FrameType(Format(c))]]
  /\ lastPos' = IF Head(sendCh[c]).seq = 0 THEN lastPos
                ELSE [lastPos EXCEPT ![c][Head(sendCh[c]).sym] =
                        [seq |-> Head(sendCh[c]).seq, pos |-> Head(sendCh[c]).pos]]
  /\ sendCh' = [sendCh EXCEPT ![c] = Tail(@)]
  /\ UNCHANGED <<registered, conn, readP, writeP, clientVars, dropped, bc>>

\* Mutation: writePump returns without its deferred Close.
WriteExitNoClose(c) ==
  /\ writeP[c] = "running"
  /\ writeP' = [writeP EXCEPT ![c] = "exited"]
  /\ UNCHANGED <<registered, conn, readP, clientVars, sendCh, dropped,
                 writtenVars, bc>>

WriteExit(c) ==
  /\ writeP[c] = "running"
  /\ writeP' = [writeP EXCEPT ![c] = "exited"]
  /\ Close(c)
  /\ UNCHANGED <<registered, readP, clientVars, sendCh, dropped, writtenVars, bc>>

(***************************************************************************)
(* Manager.Broadcast for symbol s, called by its runner after each Step.  *)
(* BroadcastStart takes the read lock and fixes the clients to walk;      *)
(* Visit asks one of them IsSubscribed and Format; SendNext is one Send   *)
(* of the batch in that encoding.  The runner calls Broadcast again only  *)
(* when the previous call has returned.                                   *)
(***************************************************************************)
WalkDone(s) == bc[s].todo = {} /\ bc[s].at = NoClient

\* Mutation: the runner hands each batch to a goroutine of its own
\* (go mgr.Broadcast(...)), so a new batch starts while the last is sent.
BroadcastStartAsync(s) ==
  /\ bc[s].seq < MaxBatches
  /\ bc' = [bc EXCEPT ![s].seq = @ + 1, ![s].todo = registered]
  /\ UNCHANGED <<registered, conn, readP, writeP, clientVars, sendCh,
                 dropped, writtenVars>>

BroadcastStart(s) ==
  /\ WalkDone(s) /\ bc[s].seq < MaxBatches
  /\ bc' = [bc EXCEPT ![s] = [seq |-> @.seq + 1, todo |-> registered,
                              at |-> NoClient, pos |-> 0, enc |-> "json"]]
  /\ UNCHANGED <<registered, conn, readP, writeP, clientVars, sendCh,
                 dropped, writtenVars>>

\* A Step that produced no messages: Broadcast returns before the lock.
BroadcastEmpty(s) ==
  /\ WalkDone(s)
  /\ UNCHANGED vars

Visit(s) ==
  \E c \in bc[s].todo :
    /\ bc[s].at = NoClient
    /\ bc' = [bc EXCEPT ![s].todo = @ \ {c},
                        ![s].at = IF IsSubscribed(c, s) THEN c ELSE NoClient,
                        ![s].pos = 1,
                        ![s].enc = Format(c)]
    /\ UNCHANGED <<registered, conn, readP, writeP, clientVars, sendCh,
                   dropped, writtenVars>>

SendNext(s) ==
  /\ bc[s].at # NoClient
  /\ Send(bc[s].at, [sym |-> s, seq |-> bc[s].seq, pos |-> bc[s].pos,
                     enc |-> bc[s].enc])
  /\ bc' = [bc EXCEPT ![s].at = IF bc[s].pos = BatchLen THEN NoClient ELSE @,
                      ![s].pos = @ + 1]
  /\ UNCHANGED <<registered, conn, readP, writeP, clientVars, writtenVars>>

Init ==
  /\ registered = {}
  /\ conn = [c \in Clients |-> "new"]
  /\ readP = [c \in Clients |-> "none"]
  /\ writeP = [c \in Clients |-> "none"]
  /\ format = [c \in Clients |-> "json"]
  /\ symbols = [c \in Clients |-> {}]
  /\ allSymbols = [c \in Clients |-> FALSE]
  /\ dirTo = [c \in Clients |-> {}]
  /\ controls = [c \in Clients |-> 0]
  /\ sendCh = [c \in Clients |-> <<>>]
  /\ dropped = [c \in Clients |-> 0]
  /\ lastWrite = [c \in Clients |-> NoWrite]
  /\ lastPos = [c \in Clients |-> [s \in Symbols |-> [seq |-> 0, pos |-> 0]]]
  /\ wanted = [c \in Clients |-> {}]
  /\ bc = [s \in Symbols |-> [seq |-> 0, todo |-> {}, at |-> NoClient,
                              pos |-> 0, enc |-> "json"]]

Next ==
  \/ \E c \in Clients :
       \/ Connect(c) \/ SubscribeAll(c) \/ Subscribe(c) \/ SendDirectory(c)
       \/ Unsubscribe(c) \/ SetFormat(c) \/ ReadExit(c)
       \/ WriteFrame(c) \/ WriteExit(c)
  \/ \E s \in Symbols :
       BroadcastStart(s) \/ BroadcastEmpty(s) \/ Visit(s) \/ SendNext(s)

Spec == Init /\ [][Next]_vars

(***************************************************************************)
(* Fairness.  A closed socket makes ReadMessage return an error and       *)
(* closes Done, so each pump is bound to return once its client is       *)
(* closed; a client that stays open is never forced to leave.  A walk of *)
(* Broadcast and handleControl's directory push run on goroutines that    *)
(* never block (Send drops rather than waits), so they finish.            *)
(***************************************************************************)
Fairness ==
  /\ \A c \in Clients :
       /\ WF_vars(conn[c] = "closed" /\ ReadExit(c))
       /\ WF_vars(conn[c] = "closed" /\ WriteExit(c))
       /\ WF_vars(SendDirectory(c))
  /\ \A s \in Symbols : WF_vars(Visit(s)) /\ WF_vars(SendNext(s))

LiveSpec == Spec /\ Fairness

-----------------------------------------------------------------------------
MaxDrops == MaxBatches * BatchLen * Cardinality(Symbols)
              + MaxControls * Cardinality(Symbols)

TypeOK ==
  /\ registered \subseteq Clients
  /\ conn \in [Clients -> {"new", "open", "closed"}]
  /\ readP \in [Clients -> {"none", "running", "exited"}]
  /\ writeP \in [Clients -> {"none", "running", "exited"}]
  /\ format \in [Clients -> Formats]
  /\ symbols \in [Clients -> SUBSET Symbols]
  /\ allSymbols \in [Clients -> BOOLEAN]
  /\ dirTo \in [Clients -> SUBSET Symbols]
  /\ controls \in [Clients -> 0..MaxControls]
  /\ \A c \in Clients : Len(sendCh[c]) <= QueueCap
                        /\ \A i \in DOMAIN sendCh[c] : sendCh[c][i] \in Frame
  /\ dropped \in [Clients -> 0..MaxDrops]
  /\ lastWrite \in [Clients -> [frame : Frame, type : {"text", "binary"}]
                               \cup {NoWrite}]
  /\ lastPos \in [Clients -> [Symbols -> [seq : 0..MaxBatches, pos : 0..BatchLen]]]
  /\ wanted \in [Clients -> SUBSET Symbols]
  /\ \A s \in Symbols :
       bc[s] \in [seq : 0..MaxBatches, todo : SUBSET Clients,
                  at : Clients \cup {NoClient}, pos : 0..BatchLen + 1,
                  enc : Formats]

\* Spec §5: within one symbol's stream the order is preserved end to end:
\* Broadcast sends a batch in order, runners broadcast one batch after the
\* other, and sendCh is FIFO.  Drops may leave gaps, but the data frames of
\* one symbol a client receives go strictly forward in (batch, position)
\* order: a later batch never overtakes an earlier one.
Before(f, g) == f.seq < g.seq \/ (f.seq = g.seq /\ f.pos < g.pos)

SymbolOrderPreserved ==
  [][\A c \in Clients, s \in Symbols :
       lastPos'[c][s] # lastPos[c][s] => Before(lastPos[c][s], lastPos'[c][s])]_vars

\* Spec §4.7: the write side sends text frames for JSON and binary frames
\* for binary.  The payload was encoded by Broadcast with the format read
\* at Visit; writePump chooses the frame type from the format at write
\* time (manager.go:355).  Every frame on the wire should carry the type of
\* the encoding of its payload.
FrameTypeMatchesEncoding ==
  \A c \in Clients :
    lastWrite[c] # NoWrite => lastWrite[c].type = FrameType(lastWrite[c].frame.enc)

\* Whichever pump returns first, the client ends up with both pumps
\* returned and out of the manager's map: readPump's deferred Unregister
\* closes Done for writePump, and writePump's deferred Close closes the
\* socket under readPump.  Otherwise Broadcast keeps queueing for a dead
\* client and a goroutine leaks.
PumpsReleaseClient ==
  \A c \in Clients :
    (readP[c] = "exited" \/ writeP[c] = "exited") ~>
      (readP[c] = "exited" /\ writeP[c] = "exited" /\ c \notin registered)

\* Spec §4.7: "unsubscribe" removes the locate codes from the client's
\* subscription.  A Broadcast that begins sending a batch of s to c does so
\* only while the subscribe and unsubscribe requests c has made leave s
\* subscribed.
SubscriptionHonoured ==
  [][\A s \in Symbols :
       bc'[s].at # NoClient /\ bc[s].at = NoClient
         => s \in wanted[bc'[s].at]]_vars

=============================================================================
