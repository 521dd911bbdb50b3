----------------------------- MODULE CatchUboot -----------------------------
(***************************************************************************)
(* smoke/catch_uboot.py: one websocket carries bursts of ^C to a network   *)
(* UART probe and the panel's console back. The client's loop drains what  *)
(* arrived, looks for the prompt and sends the next burst, on a socket     *)
(* that does not block. Bytes are small numbers: a frame is an opcode, a   *)
(* length (EXT announces two more length bytes, base 4) and its payload, a *)
(* sequence of console tokens. recv may return any part of what was sent,  *)
(* and send may take any part of a frame. Server frames are not masked.    *)
(***************************************************************************)
EXTENDS Naturals, Sequences, SequencesExt

CONSTANTS
  FLEN,       \* bytes of the frame that carries a burst
  Marks,      \* prompt-like tokens the panel prints outside U-Boot
  TAIL,       \* tokens searched for the prompt (200 bytes)
  RX_MAX,     \* rx_buf is cut when it is longer (16384 bytes)
  RX_KEEP,    \* and keeps that much (8192 bytes)
  MaxBytes,   \* max_bytes of one drain
  MaxFrames,  \* bound: frames the probe sends
  DataLens    \* bound: tokens in a frame

ASSUME FrameAssumption == FLEN \in Nat /\ FLEN >= 2
ASSUME BufferAssumption ==
  /\ {TAIL, RX_KEEP, RX_MAX} \subseteq Nat
  /\ TAIL <= RX_KEEP /\ RX_KEEP <= RX_MAX
ASSUME MarksAssumption == Marks \subseteq Nat
ASSUME BoundAssumption == {MaxBytes, MaxFrames} \subseteq Nat /\ DataLens \subseteq Nat

VARIABLES
  pc,       \* "connect", "loop", "pull", "frame", "ret", "send", "exit"
  exit,     \* "nothing", "caught", "gaveup", "error"
  buf,      \* leftover, and buf while a drain runs
  out,      \* payload of this drain
  rx_buf,   \* the console as far as it is kept
  late,     \* the deadline has passed
  net,      \* bytes on their way from the probe
  closed,   \* the probe has closed the connection
  frames,   \* frames the probe has sent
  owed,     \* bytes of the burst frame in progress the probe still expects
  garbled,  \* the probe has taken a byte for something it is not
  panel,    \* "boot", "delay", "prompt", "linux"
  sent, got \* history: tokens the probe sent, tokens put in rx_buf

vars == <<pc, exit, buf, out, rx_buf, late, net, closed, frames, owed, garbled, panel, sent, got>>
client == <<pc, exit, buf, out, rx_buf, got>>
wire == <<net, closed, frames, sent>>
probe == <<owed, garbled, panel>>

TEXT == 1
CLOSE == 8
PING == 9
EXT == 3
ARROW == 6    \* "=> "
UBOOT == 7    \* "u-boot", which ARROW makes the prompt

Init ==
  /\ pc = "connect" /\ exit = "nothing"
  /\ buf = <<>> /\ out = <<>> /\ rx_buf = <<>>
  /\ late = FALSE
  /\ net = <<>> /\ closed = FALSE /\ frames = 0
  /\ owed = 0 /\ garbled = FALSE
  /\ panel = "boot"
  /\ sent = <<>> /\ got = <<>>

-----------------------------------------------------------------------------
(* External: panel, probe and clock. *)

\* The panel boots, and may be restarted wherever it is.
PanelNext ==
  /\ \/ panel = "boot" /\ panel' = "delay"
     \/ panel = "delay" /\ panel' = "linux"
     \/ panel \in {"prompt", "linux"} /\ panel' = "boot"
  /\ UNCHANGED <<client, wire, late, owed, garbled>>

\* The console text goes on with n symbols of no interest (4 and 5 in turn, so
\* that a lost or doubled one shows), one of them perhaps replaced by a part of a
\* prompt, or two by a prompt. The parts of a prompt may come in two frames.
Text(n) == [i \in 1 .. n |-> IF (Len(sent) + i) % 2 = 0 THEN 4 ELSE 5]
Marked(t, marks) == {[t EXCEPT ![i] = m] : i \in DOMAIN t, m \in marks}
Prompts(t) == {[t EXCEPT ![i] = UBOOT, ![i + 1] = ARROW] : i \in 1 .. Len(t) - 1}
Prints ==
  UNION {{t} \cup Marked(t, Marks) \cup
         (IF panel = "prompt" THEN Marked(t, {UBOOT, ARROW}) \cup Prompts(t) ELSE {}) :
           t \in {Text(n) : n \in DataLens}}

Encode(op, d) ==
  (IF Len(d) < EXT THEN <<op, Len(d)>> ELSE <<op, EXT, Len(d) \div 4, Len(d) % 4>>) \o d

ProbeSend ==
  /\ ~closed /\ frames < MaxFrames
  /\ frames' = frames + 1
  /\ \/ \E d \in Prints :
          net' = net \o Encode(TEXT, d) /\ sent' = sent \o d /\ UNCHANGED closed
     \/ net' = net \o Encode(PING, <<>>) /\ UNCHANGED <<sent, closed>>
     \/ net' = net \o Encode(CLOSE, <<>>) /\ closed' = TRUE /\ UNCHANGED sent
  /\ UNCHANGED <<client, late, probe>>

\* The probe falls silent: what is still on the way may be cut anywhere.
ProbeDies ==
  /\ ~closed /\ frames < MaxFrames
  /\ frames' = MaxFrames
  /\ \E k \in 0 .. Len(net) : net' = SubSeq(net, 1, k)
  /\ UNCHANGED <<client, closed, sent, late, probe>>

\* deadline counts from the end of ws_connect.
Deadline ==
  /\ pc # "connect" /\ ~late /\ late' = TRUE
  /\ UNCHANGED <<client, wire, probe>>

-----------------------------------------------------------------------------
(* The client. *)

Exit(how) == pc' = "exit" /\ exit' = how

\* recv returns the first k bytes; none when nothing arrived yet, or at the end.
Recv(k) ==
  /\ buf' = buf \o SubSeq(net, 1, k)
  /\ net' = SubSeq(net, k + 1, Len(net))
  /\ UNCHANGED <<closed, frames, sent>>

\* ws_connect: what follows the response headers is the start of the stream.
\* Each recv has its own timeout and the loop none, so a probe that dribbles out
\* its answer holds the client here: nothing makes this step happen.
Connect ==
  /\ pc = "connect"
  /\ \E k \in 0 .. Len(net) : Recv(k)
  /\ pc' = "loop"
  /\ UNCHANGED <<exit, out, rx_buf, got, late, probe>>

\* No connection, no answer in time, closed early, or not a 101.
ConnectFail ==
  /\ pc = "connect"
  /\ Exit("error")
  /\ UNCHANGED <<buf, out, rx_buf, got, wire, late, probe>>

\* The loop's condition, then select.
GiveUp ==
  /\ pc = "loop" /\ late
  /\ Exit("gaveup")
  /\ UNCHANGED <<buf, out, rx_buf, got, wire, late, probe>>

Select ==
  /\ pc = "loop" /\ ~late
  /\ pc' = IF net # <<>> \/ closed THEN "pull" ELSE "send"
  /\ out' = <<>>
  /\ UNCHANGED <<exit, buf, rx_buf, got, wire, late, probe>>

\* Mutant: the bytes left over from the last drain are dropped.
Pull_fresh ==
  /\ pc = "pull"
  /\ \E k \in 0 .. Len(net) :
       /\ buf' = SubSeq(net, 1, k)
       /\ net' = SubSeq(net, k + 1, Len(net))
       /\ UNCHANGED <<closed, frames, sent>>
       /\ pc' = IF k < 2 THEN "ret" ELSE "frame"
  /\ UNCHANGED <<exit, out, rx_buf, got, late, probe>>

\* ws_recv_all_available, top of the loop.
Pull ==
  /\ pc = "pull"
  /\ \E k \in 0 .. Len(net) :
       /\ Recv(k)
       /\ pc' = IF Len(buf) + k < 2 THEN "ret" ELSE "frame"
  /\ UNCHANGED <<exit, out, rx_buf, got, late, probe>>

HeadLen == IF buf[2] = EXT THEN 4 ELSE 2
DataLen == IF buf[2] = EXT THEN 4 * buf[3] + buf[4] ELSE buf[2]
Complete == Len(buf) >= HeadLen /\ Len(buf) >= HeadLen + DataLen

\* Mutant: at the end of the stream need() goes on waiting for the rest.
Need_stuck ==
  /\ pc = "frame" /\ ~Complete
  /\ \/ \E k \in 1 .. Len(net) : Recv(k) /\ UNCHANGED pc
     \/ UNCHANGED <<buf, wire, pc>>
  /\ UNCHANGED <<exit, out, rx_buf, got, late, probe>>

\* need(): more bytes, or none now and the drain ends with the frame kept.
Need ==
  /\ pc = "frame" /\ ~Complete
  /\ \/ \E k \in 1 .. Len(net) : Recv(k) /\ UNCHANGED pc
     \/ pc' = "ret" /\ UNCHANGED <<buf, wire>>
  /\ UNCHANGED <<exit, out, rx_buf, got, late, probe>>

\* A whole frame: its data are taken, a close ends the drain, others are skipped.
Take ==
  /\ pc = "frame" /\ Complete
  /\ LET end == HeadLen + DataLen IN
     \/ /\ buf[1] # CLOSE
        /\ out' = IF buf[1] = TEXT THEN out \o SubSeq(buf, HeadLen + 1, end) ELSE out
        /\ buf' = SubSeq(buf, end + 1, Len(buf))
        /\ pc' = IF Len(out') >= MaxBytes THEN "ret" ELSE "pull"
     \/ /\ buf[1] = CLOSE
        /\ buf' = <<>> /\ pc' = "ret" /\ UNCHANGED out
  /\ UNCHANGED <<exit, rx_buf, got, wire, late, probe>>

\* A reset connection: recv raises what nothing catches.
RecvError ==
  /\ pc \in {"pull", "frame"} /\ closed
  /\ Exit("error")
  /\ UNCHANGED <<buf, out, rx_buf, got, wire, late, probe>>

\* Mutant: the buffer is cut from the wrong end.
Trim_front(b) == IF Len(b) > RX_MAX THEN SubSeq(b, 1, RX_KEEP) ELSE b

Trim(b) == IF Len(b) > RX_MAX THEN SubSeq(b, Len(b) - RX_KEEP + 1, Len(b)) ELSE b

Window(b) == SubSeq(b, IF Len(b) > TAIL THEN Len(b) - TAIL + 1 ELSE 1, Len(b))

\* A whole prompt, the i-th and the next token.
PromptAt(b, i) == i + 1 \in DOMAIN b /\ b[i] = UBOOT /\ b[i + 1] = ARROW

\* Mutant: match for search, which looks at the beginning only.
Prompted_match(b) ==
  LET tail == Window(b) IN PromptAt(tail, 1) \/ (tail # <<>> /\ tail[1] = ARROW)

\* prompt_re.search(rx_buf[-200:]): "u-boot=> " anywhere in the tail, or "=> "
\* at its start (there is no MULTILINE).
Prompted(b) ==
  LET tail == Window(b) IN
  (\E i \in DOMAIN tail : PromptAt(tail, i)) \/ (tail # <<>> /\ tail[1] = ARROW)

\* The drained data join what was there, and its end is searched.
Ret ==
  /\ pc = "ret"
  /\ rx_buf' = Trim(rx_buf \o out)
  /\ got' = got \o out /\ out' = <<>>
  /\ IF out # <<>> /\ Prompted(rx_buf') THEN Exit("caught") ELSE pc' = "send" /\ UNCHANGED exit
  /\ UNCHANGED <<buf, wire, late, probe>>

\* Not yet time for the next burst.
Wait ==
  /\ pc = "send"
  /\ pc' = "loop"
  /\ UNCHANGED <<exit, buf, out, rx_buf, got, wire, late, probe>>

\* ws_send_binary: all of the frame went out. The burst stops the autoboot.
Send ==
  /\ pc = "send" /\ ~closed
  /\ IF owed = 0
     THEN panel' = (IF panel = "delay" /\ ~garbled THEN "prompt" ELSE panel) /\ UNCHANGED garbled
     ELSE garbled' = TRUE /\ UNCHANGED panel
  /\ pc' = "loop"
  /\ UNCHANGED <<exit, buf, out, rx_buf, got, wire, late, owed>>

\* The socket takes n bytes and then would block; the loop tries again with a
\* new frame.
SendBlocked ==
  /\ pc = "send" /\ ~closed
  /\ \E n \in 0 .. FLEN - 1 :
       IF n = 0 THEN UNCHANGED <<owed, garbled>>
       ELSE IF owed = 0 THEN owed' = FLEN - n /\ UNCHANGED garbled
       ELSE garbled' = TRUE /\ UNCHANGED owed
  /\ pc' = "loop"
  /\ UNCHANGED <<exit, buf, out, rx_buf, got, wire, late, panel>>

SendError ==
  /\ pc = "send" /\ closed
  /\ Exit("gaveup")
  /\ UNCHANGED <<buf, out, rx_buf, got, wire, late, probe>>

Loop ==
  \/ GiveUp \/ Select \/ Pull \/ Need \/ Take \/ RecvError \/ Ret
  \/ Wait \/ Send \/ SendBlocked \/ SendError

Done == pc = "exit" /\ UNCHANGED vars

Next == PanelNext \/ ProbeSend \/ ProbeDies \/ Deadline \/ Connect \/ ConnectFail \/ Loop \/ Done

Spec == Init /\ [][Next]_vars /\ WF_vars(Loop) /\ WF_vars(Deadline)

-----------------------------------------------------------------------------
(* Properties. *)

\* However the stream is cut into reads, with control frames and long lengths
\* between, the console text is delivered without a byte lost, doubled or
\* taken for a header (lines 63-120).
StreamIntact == IsPrefix(got \o out, sent)

\* Cutting rx_buf down never takes away what the search looks at: it is always
\* the end of the console text, and long enough (lines 155-160).
TailKept ==
  IsSuffix(rx_buf, got) /\ (rx_buf = got \/ Len(rx_buf) >= TAIL)

\* No prompt slips through: one that lies whole within the last TAIL tokens
\* delivered has ended the search, in however many frames and drains it came
\* and wherever the buffer was cut (lines 154-165).
PromptCaught ==
  exit = "caught" \/ \A i \in DOMAIN got : PromptAt(got, i) => i <= Len(got) - TAIL

\* "Search just the tail (anchored to end of buffer)" (catch_uboot.py:159): what
\* is caught is a prompt the console has stopped at, the last thing it printed.
AnchoredAtEnd == exit = "caught" => Last(rx_buf) = ARROW

\* Once connected the catcher ends by its deadline, whatever the probe sends and
\* however the stream ends (lines 149-186).
CatchEnds == pc # "connect" ~> pc = "exit"

\* "Probe-side TCP recv buffer is momentarily full; back off briefly"
\* (catch_uboot.py:174): after the pause the next burst is a frame of its own.
FramesIntact == ~garbled
=============================================================================
