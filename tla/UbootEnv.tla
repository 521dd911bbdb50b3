------------------------------ MODULE UbootEnv ------------------------------
(***************************************************************************)
(* tools/uboot_env_edit.py: reads the panel's environment block, edits it  *)
(* in files and writes it under a new CRC. A payload is a sequence of      *)
(* cells; a cell is NUL or a whole text between two NULs (a text takes one *)
(* cell whatever its length, and no two texts are neighbours). A CRC is    *)
(* right or wrong. A command may be killed between any two of its steps.   *)
(***************************************************************************)
EXTENDS Integers, Sequences, FiniteSetsExt, SequencesExt

CONSTANTS
  NUL,            \* the zero byte
  NoFile,         \* no file at this path
  Junk,           \* a text without "="
  Text,           \* texts with one: their keys k and values v
  NonAscii,       \* values that are not ASCII
  ENV_DATA_SIZE,  \* cells in a payload (4092 bytes)
  Path,           \* local files
  Payloads,       \* payloads the panel's block may have
  Modifies,       \* argument lists of modify
  Deletes,        \* key sets of delete
  MaxCommands     \* bound: commands run

ASSUME SizeAssumption == ENV_DATA_SIZE \in Nat /\ ENV_DATA_SIZE >= 2
ASSUME TextAssumption == NUL \notin Text /\ Junk \notin Text /\ NUL # Junk

Cell == Text \cup {Junk, NUL}

ASSUME PayloadsAssumption ==
  \A d \in Payloads :
    /\ d \in [1 .. ENV_DATA_SIZE -> Cell]
    /\ \A n \in 2 .. ENV_DATA_SIZE : NUL \in {d[n - 1], d[n]}
ASSUME NoFileAssumption == NoFile \notin [crc : BOOLEAN, data : Seq(Cell)]
ASSUME ModifiesAssumption == Modifies \subseteq Seq(Text \cup {Junk})
ASSUME BoundAssumption == MaxCommands \in Nat

VARIABLES
  panel,    \* the block on the eMMC
  files,    \* Path -> block or NoFile
  pc,       \* "idle", "load", "edit", "save", "write", "done"
  cmd,      \* the command: op, src, dst, args
  entries,  \* the dict in memory, as a sequence of texts with distinct keys
  block,    \* the bytes about to be written
  warned,   \* a warning was printed
  exit,     \* "nothing", "ok", "refused", "killed", "ioerror"
  before,   \* history: files when the command began
  runs      \* commands so far

vars == <<panel, files, pc, cmd, entries, block, warned, exit, before, runs>>

-----------------------------------------------------------------------------
(* Blocks. *)

\* Any file that is not 4096 bytes long: what a cut-off write leaves.
Short == [crc |-> FALSE, data |-> <<>>]

\* The place of the empty entry that ends the list, or one past the payload.
Stop(d) ==
  Min({n \in 1 .. Len(d) : d[n] = NUL /\ (n = 1 \/ d[n - 1] = NUL)} \cup {Len(d) + 1})

\* What the loops over payload.split(b"\x00") look at.
Cells(d) == SubSeq(d, 1, Stop(d) - 1)

\* out[k] = v of a dict that keeps insertion order.
Put(dict, t) ==
  IF \E n \in DOMAIN dict : dict[n].k = t.k
  THEN [n \in DOMAIN dict |-> IF dict[n].k = t.k THEN t ELSE dict[n]]
  ELSE Append(dict, t)

\* The dict as the loop over a list of texts fills it; malformed ones are skipped.
Filled(dict, ts) ==
  LET out[n \in 0 .. Len(ts)] ==
        IF n = 0 THEN dict
        ELSE IF ts[n] \in {NUL, Junk} THEN out[n - 1] ELSE Put(out[n - 1], ts[n])
  IN  out
PutAll(dict, ts) == Filled(dict, ts)[Len(ts)]

parse_env(d) == PutAll(<<>>, Cells(d))

\* Mutant: an empty environment and a full one get the same tail, one too long.
Payload_long(dict) ==
  [n \in 1 .. 2 * Len(dict) + 2 |->
     IF n % 2 = 1 /\ n < 2 * Len(dict) THEN dict[(n + 1) \div 2] ELSE NUL]

\* Entries joined by NUL, then two NULs.
Payload(dict) ==
  IF dict = <<>> THEN <<NUL, NUL>>
  ELSE [n \in 1 .. 2 * Len(dict) + 1 |->
          IF n % 2 = 1 /\ n < 2 * Len(dict) THEN dict[(n + 1) \div 2] ELSE NUL]

\* serialize_env does not raise.
Serializable(dict) ==
  /\ \A n \in DOMAIN dict : dict[n].v \notin NonAscii
  /\ Len(Payload(dict)) <= ENV_DATA_SIZE

\* Mutant: the entries are written in reverse.
serialize_env_reversed(dict) ==
  [crc |-> TRUE,
   data |-> [n \in 1 .. ENV_DATA_SIZE |->
               IF n <= Len(Payload(dict)) THEN Payload(Reverse(dict))[n] ELSE NUL]]

serialize_env(dict) ==
  [crc |-> TRUE,
   data |-> [n \in 1 .. ENV_DATA_SIZE |->
               IF n <= Len(Payload(dict)) THEN Payload(dict)[n] ELSE NUL]]

Whole(f) == f # NoFile /\ Len(f.data) = ENV_DATA_SIZE

verify_block(f) ==
  /\ Whole(f)
  /\ f.crc
  /\ \A n \in 1 .. Stop(f.data) - 1 :
       f.data[n] # NUL => f.data[n] # Junk /\ f.data[n].v \notin NonAscii

\* What cmd_verify answers 0 to.
Verified(f) ==
  /\ verify_block(f)
  /\ {"slotaboot", "slotbboot"} \subseteq {parse_env(f.data)[n].k : n \in DOMAIN parse_env(f.data)}

-----------------------------------------------------------------------------
(* Edits of the dict. *)

Presets == << [k |-> "slotaboot", v |-> "SLOTABOOT"], [k |-> "slotbboot", v |-> "SLOTBBOOT"],
              [k |-> "bootcmd_ab", v |-> "BOOTCMD_AB"] >>
DefaultSlot == [k |-> "slot", v |-> "b"]

ASSUME PresetsAssumption == DefaultSlot \in Text /\ \A n \in 1 .. 3 : Presets[n] \in Text

\* Mutant: the default slot overwrites a chosen one.
preset_symmetric_forced(dict) == Put(PutAll(dict, Presets), DefaultSlot)

preset_symmetric(dict) ==
  LET d == PutAll(dict, Presets) IN
  IF \E n \in DOMAIN d : d[n].k = "slot" THEN d ELSE Append(d, DefaultSlot)

\* Mutant: delete drops everything behind the first key it removes.
Delete_tail(dict, keys) ==
  SubSeq(dict, 1, Min({n \in DOMAIN dict : dict[n].k \in keys} \cup {Len(dict) + 1}) - 1)

\* The dict without the keys.
Delete(dict, keys) ==
  PutAll(<<>>, [n \in 1 .. Len(dict) |-> IF dict[n].k \in keys THEN NUL ELSE dict[n]])

-----------------------------------------------------------------------------
NoCommand == [op |-> "none"]

Init ==
  /\ panel \in [crc : BOOLEAN, data : Payloads]
  /\ \E dumps \in {{}} \cup {{p} : p \in Path} :
       files = [p \in Path |-> IF p \in dumps THEN panel ELSE NoFile]
  /\ pc = "idle"
  /\ cmd = NoCommand
  /\ entries = <<>> /\ block = Short
  /\ warned = FALSE /\ exit = "nothing"
  /\ before = files /\ runs = 0

Commands ==
  [op : {"read"}, dst : Path]
    \cup [op : {"show", "verify"}, src : Path]
    \cup [op : {"modify"}, src : Path, dst : Path, args : Modifies]
    \cup [op : {"delete"}, src : Path, dst : Path, args : Deletes]
    \cup [op : {"preset"}, src : Path, dst : Path]

IsEdit(c) == c.op \in {"modify", "delete", "preset"}

Invoke ==
  /\ pc \in {"idle", "done"} /\ runs < MaxCommands
  /\ \E c \in Commands :
       /\ cmd' = c
       /\ pc' = IF c.op = "read" THEN "save" ELSE "load"
  /\ entries' = <<>> /\ block' = Short
  /\ warned' = FALSE /\ exit' = "nothing" /\ before' = files
  /\ runs' = runs + 1
  /\ UNCHANGED <<panel, files>>

End(e) == pc' = "done" /\ exit' = e

\* cmd_show and cmd_verify; a block of the wrong size makes parse_env raise.
Inspect ==
  /\ pc = "load" /\ cmd.op \in {"show", "verify"}
  /\ End(IF IF cmd.op = "show" THEN Whole(files[cmd.src]) ELSE Verified(files[cmd.src])
         THEN "ok" ELSE "refused")
  /\ UNCHANGED <<panel, files, cmd, entries, block, warned, before, runs>>

\* Mutant: preset takes any unreadable input for a missing one.
Load_lenient ==
  /\ pc = "load" /\ IsEdit(cmd)
  /\ entries' = IF Whole(files[cmd.src]) THEN parse_env(files[cmd.src].data) ELSE <<>>
  /\ pc' = "edit"
  /\ UNCHANGED <<panel, files, cmd, block, warned, exit, before, runs>>

\* _load: parse the input, or raise. Only preset starts from a missing file.
Load ==
  /\ pc = "load" /\ IsEdit(cmd)
  /\ LET f == files[cmd.src] IN
       \/ /\ Whole(f)
          /\ entries' = parse_env(f.data)
          /\ warned' = (~f.crc \/ \E n \in 1 .. Stop(f.data) - 1 : f.data[n] = Junk)
          /\ pc' = "edit" /\ UNCHANGED exit
       \/ /\ f = NoFile /\ cmd.op = "preset"
          /\ entries' = <<>>
          /\ pc' = "edit" /\ UNCHANGED <<exit, warned>>
       \/ /\ ~Whole(f) /\ ~(f = NoFile /\ cmd.op = "preset")
          /\ End("refused") /\ UNCHANGED <<entries, warned>>
  /\ UNCHANGED <<panel, files, cmd, block, before, runs>>

\* The edit itself; modify stops at an argument without "=".
Edit ==
  /\ pc = "edit"
  /\ IF cmd.op = "modify" /\ Junk \in ToSet(cmd.args)
     THEN End("refused") /\ UNCHANGED entries
     ELSE /\ entries' = CASE cmd.op = "modify" -> PutAll(entries, cmd.args)
                          [] cmd.op = "delete" -> Delete(entries, cmd.args)
                          [] cmd.op = "preset" -> preset_symmetric(entries)
          /\ pc' = "save" /\ UNCHANGED exit
  /\ UNCHANGED <<panel, files, cmd, block, warned, before, runs>>

\* Mutant: the output is opened before the entries are serialised.
Save_open_first ==
  /\ pc = "save" /\ IsEdit(cmd)
  /\ files' = [files EXCEPT ![cmd.dst] = Short]
  /\ IF Serializable(entries)
     THEN block' = serialize_env(entries) /\ pc' = "write" /\ UNCHANGED exit
     ELSE End("refused") /\ UNCHANGED block
  /\ UNCHANGED <<panel, cmd, entries, warned, before, runs>>

\* _save: serialise, and only then open (and so truncate) the output.
Save ==
  /\ pc = "save" /\ IsEdit(cmd)
  /\ IF Serializable(entries)
     THEN /\ block' = serialize_env(entries)
          /\ files' = [files EXCEPT ![cmd.dst] = Short]
          /\ pc' = "write" /\ UNCHANGED exit
     ELSE End("refused") /\ UNCHANGED <<block, files>>
  /\ UNCHANGED <<panel, cmd, entries, warned, before, runs>>

\* cmd_read: ssh and dd fail, or return less than a block, or the block.
ReadFail ==
  /\ pc = "save" /\ cmd.op = "read"
  /\ End("refused")
  /\ UNCHANGED <<panel, files, cmd, entries, block, warned, before, runs>>

ReadOpen ==
  /\ pc = "save" /\ cmd.op = "read"
  /\ block' = panel
  /\ files' = [files EXCEPT ![cmd.dst] = Short]
  /\ pc' = "write"
  /\ UNCHANGED <<panel, cmd, entries, warned, exit, before, runs>>

\* f.write: read answers 2 for a block that does not verify, after writing it.
Write ==
  /\ pc = "write"
  /\ files' = [files EXCEPT ![cmd.dst] = block]
  /\ End(IF cmd.op = "read" /\ ~verify_block(block) THEN "refused" ELSE "ok")
  /\ UNCHANGED <<panel, cmd, entries, block, warned, before, runs>>

WriteError ==
  /\ pc = "write"
  /\ End("ioerror")
  /\ UNCHANGED <<panel, files, cmd, entries, block, warned, before, runs>>

Kill ==
  /\ pc \notin {"idle", "done"}
  /\ End("killed")
  /\ UNCHANGED <<panel, files, cmd, entries, block, warned, before, runs>>

\* Enough commands.
Done == pc \in {"idle", "done"} /\ runs = MaxCommands /\ UNCHANGED vars

Next ==
  Invoke \/ Inspect \/ Load \/ Edit \/ Save \/ ReadFail \/ ReadOpen \/ Write \/ WriteError \/ Kill \/ Done

Spec == Init /\ [][Next]_vars

-----------------------------------------------------------------------------
(* Properties. *)

Saved == pc = "done" /\ exit = "ok" /\ IsEdit(cmd)
Input == before[cmd.src]
Touched ==
  CASE cmd.op = "modify" -> {cmd.args[n].k : n \in DOMAIN cmd.args}
    [] cmd.op = "delete" -> cmd.args
    [] cmd.op = "preset" -> {Presets[n].k : n \in DOMAIN Presets} \cup {"slot"}

\* Writer and readers agree: a file an edit reports as written passes
\* verify_block, and parse_env reads from it exactly the entries that were to be
\* saved, in their order, up to the last byte of the block (lines 103-160).
SavedIsRequested ==
  Saved => verify_block(files[cmd.dst]) /\ parse_env(files[cmd.dst].data) = entries

\* An edit keeps what it was not asked to change: each entry of the input whose
\* key is not in the command and that no later entry of that key replaced is
\* saved, nothing else is, and in the order in which the keys first appeared. What
\* parse_env drops (malformed entries, lines 122-124) and an input whose CRC is
\* wrong (lines 109-112), which the output's right one hides from then on, the
\* command warned of.
KeepsUntouched ==
  Saved /\ Input # NoFile =>
    LET in == Input.data
        last == Stop(in) - 1
        IsKey(n, key) == in[n] \notin {NUL, Junk} /\ in[n].k = key
    IN  /\ Input.crc \/ warned
        /\ \A n \in 1 .. last :
             \/ in[n] = NUL
             \/ in[n] = Junk /\ warned
             \/ in[n] # Junk /\ in[n].k \in Touched
             \/ in[n] # Junk /\ \E m \in n + 1 .. last : IsKey(m, in[n].k)
             \/ \E i \in DOMAIN entries : entries[i] = in[n]
        /\ \A i \in DOMAIN entries : entries[i].k \notin Touched => \E n \in 1 .. last : in[n] = entries[i]
        /\ \A i, j \in DOMAIN entries :
             i < j /\ entries[i].k \notin Touched /\ entries[j].k \notin Touched =>
               \E m \in 1 .. last : /\ IsKey(m, entries[i].k)
                                   /\ \A n \in 1 .. last : IsKey(n, entries[j].k) => m < n

\* An edit that refuses (bad argument, unreadable input, value that is not
\* ASCII, environment too large) has not touched any file, in-place edits
\* included (line 213 comes after 212).
RefusalHarmless ==
  pc = "done" /\ exit = "refused" /\ IsEdit(cmd) => files = before

\* A file that a killed or failed write left short is never taken for an
\* environment by a later command: what is saved comes from a whole block, or
\* from nothing where preset says so (lines 104-105, 256-260).
SavedFromWhole ==
  Saved => Whole(Input) \/ (cmd.op = "preset" /\ Input = NoFile)

\* preset-symmetric leaves a block that verify accepts, keeps a slot that was
\* chosen, and changes nothing when it is run again (lines 251-269).
PresetReady ==
  Saved /\ cmd.op = "preset" =>
    LET f == files[cmd.dst] IN
      /\ Verified(f)
      /\ serialize_env(preset_symmetric(parse_env(f.data))) = f
      /\ Input # NoFile =>
           \A t \in ToSet(parse_env(Input.data)) : t.k = "slot" => t \in ToSet(parse_env(f.data))

\* Removing keys from a block that fits never fails for lack of room, also
\* when the block is full to the last byte or ends up empty (lines 132-138).
DeleteNeverTooLarge ==
  pc = "done" /\ exit = "refused" /\ cmd.op = "delete" /\ Whole(Input) =>
    \/ Stop(Input.data) > ENV_DATA_SIZE
    \/ \E n \in DOMAIN entries : entries[n].v \in NonAscii
=============================================================================
