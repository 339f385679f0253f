-------------------------- MODULE KconfigCommands --------------------------
(***************************************************************************)
(* support/kconfig/conf.c, main, and the files it leaves behind: one       *)
(* command (make oldconfig, make defconfig ...) after the other, over      *)
(* changing Kconfig files, with the operations on the files one by one and *)
(* a crash, or an operation that fails, between any two of them.           *)
(***************************************************************************)
EXTENDS KconfigConf, KconfigLegal

CONSTANTS
  Consts,      \* the constant symbols
  Versions,    \* the Kconfig files, one after the other
  Seed,        \* the file of KCONFIG_ALLCONFIG
  Requests,    \* the commands: mode, tty, input, pick, seeded, nosilent
  MaxCommands  \* how many are given

blocks == [v \in DOMAIN Versions |-> Blocks(Versions[v])]

VARIABLES
  ks,       \* what conf_parse makes of each version: it never changes
  version,  \* the Kconfig files that are there now
  disk,     \* the files: config, old, defconfig, header, tristate, auto
  todo,     \* the operations on files the running command has still to do
  touched,  \* history: the symbols touched since auto.conf was written
  by,       \* history: the version the configuration was written with
  fresh,    \* history: auto.conf is newer than the configuration
  end,      \* how the last command ended: its questions, and its files
  count     \* commands given

vars == <<ks, version, disk, todo, touched, by, fresh, end, count>>
k == ks[version]
Has(f) == f \in DOMAIN disk

WriteFile(f, lines) == <<[do |-> "put", file |-> f, lines |-> lines]>>
Touch(syms) ==
  LET known == SelectSeq(k.symbols, LAMBDA s : s \in syms)
      gone == FoldSet(LAMBDA s, q : Append(q, s), << >>, syms \ DOMAIN k.ty)
      seq == known \o gone
  IN  [i \in DOMAIN seq |-> [do |-> "touch", file |-> seq[i], lines |-> << >>]]

Init ==
  /\ ks = [v \in DOMAIN Versions |-> Kconfig(Consts, Versions[v])]
  /\ version \in DOMAIN Versions
  /\ disk = << >> /\ todo = << >> /\ touched = {} /\ by = version
  /\ fresh = FALSE /\ end = "" /\ count = 0

----------------------------------------------------------------------------
\* A command that does not find the file it needs exits at once.
Missing(r) ==
  \/ r.mode = "defconfig" /\ ~Has("defconfig")
  \/ r.mode = "silentoldconfig" /\ ~Has("config")

\* What main reads before it asks; r is the command.
Unread == {"allnoconfig", "allyesconfig", "allmodconfig", "alldefconfig", "randconfig"}
Input(r) ==
  LET st == Begin(k, r.mode, r.tty, r.input)
      file == IF r.mode = "defconfig" THEN "defconfig" ELSE "config"
  IN  CASE r.mode \in Unread /\ r.seeded -> ReadSimple(k, st, Seed, "user")
        [] r.mode \in Unread /\ ~r.seeded -> st
        [] r.mode \notin Unread /\ Has(file) -> ConfRead(k, st, disk[file])
        [] OTHER -> ReadNothing(k, [st EXCEPT !.changed = FALSE])

\* silentoldconfig exits when it may not change the configuration.
Refused(r, st) == r.mode = "silentoldconfig" /\ r.nosilent /\ st.changed

\* Mutant: the new file is put in place before the old one gets another name
SaveConfig_inPlace(lines) ==
  WriteFile("config", lines)
    \o (IF Has("config") THEN <<[do |-> "backup", file |-> "old", lines |-> lines]>> ELSE << >>)

\* conf_write: the file gets its .old name before the new one takes its place.
SaveConfig(lines) ==
  (IF Has("config") THEN <<[do |-> "backup", file |-> "old", lines |-> disk["config"]]>> ELSE << >>)
    \o WriteFile("config", lines)

\* Mutant: auto.conf is renamed first
AutoFiles_autoFirst(lines) ==
  WriteFile("auto", lines) \o WriteFile("header", HeaderLines(k, lines))
    \o WriteFile("tristate", TristateLines(k, lines))

\* conf_write_autoconf: the files of the symbols, then the three that get
\* their names at the end.
AutoFiles(lines) ==
  WriteFile("header", HeaderLines(k, lines)) \o WriteFile("tristate", TristateLines(k, lines))
    \o WriteFile("auto", lines)
WriteSplit(split) == Touch(split[2]) \o AutoFiles(AutoLines(k, split[1]))
WriteAutoconf(st) ==
  WriteSplit(SplitConfig(k, ClearAllValid(k, st), IF Has("auto") THEN <<disk["auto"]>> ELSE << >>))

\* What main does with the files after the questions.
SaveBoth(w) == SaveConfig(w[2]) \o WriteAutoconf(w[1])
Output(r, st) ==
  CASE r.mode = "silentoldconfig" -> IF st.changed THEN SaveBoth(ConfWrite(k, st)) ELSE WriteAutoconf(st)
    [] r.mode = "savedefconfig" ->
         WriteFile("defconfig", << >>) \o WriteFile("defconfig", WriteDefconfig(k, st)[2])
    [] r.mode = "listnewconfig" -> << >>
    [] OTHER -> SaveConfig(ConfWrite(k, st)[2])

Exits == end' = "refused" /\ todo' = << >>
Goes(r, st) == end' = st.end /\ todo' = IF st.end = "" THEN Output(r, st) ELSE << >>
Command ==
  /\ todo = << >> /\ count < MaxCommands /\ count' = count + 1
  /\ \E r \in Requests :
       \/ Missing(r) /\ Exits
       \/ /\ ~Missing(r)
          /\ \E st \in {Input(r)} :
               \/ Refused(r, st) /\ Exits
               \/ ~Refused(r, st) /\ \E a \in {Answer(k, st, r.pick)} : Goes(r, a)
  /\ UNCHANGED <<ks, version, disk, touched, by, fresh>>

Step ==
  /\ todo # << >> /\ todo' = Tail(todo)
  /\ LET op == Head(todo)
     IN  /\ disk' = CASE op.do = "put" -> (op.file :> op.lines) @@ disk
                      [] op.do = "backup" -> [f \in (DOMAIN disk \ {"config"}) \cup {"old"} |->
                                                IF f = "old" THEN op.lines ELSE disk[f]]
                      [] op.do = "touch" -> disk
         /\ touched' = CASE op.do = "touch" -> touched \cup {op.file}
                         [] op.file = "auto" -> {}
                         [] OTHER -> touched
         /\ by' = IF op.file = "config" THEN version ELSE by
         /\ fresh' = CASE op.file = "auto" -> TRUE [] op.file = "config" -> FALSE [] OTHER -> fresh
  /\ UNCHANGED <<ks, version, end, count>>

\* conf_write does not look whether the rename to .old fails.
BackupFails ==
  /\ todo # << >> /\ Head(todo).do = "backup"
  /\ todo' = Tail(todo) /\ end' = "unkept"
  /\ UNCHANGED <<ks, version, disk, touched, by, fresh, count>>

\* The program is killed, or any other operation fails and it exits.
Crash ==
  /\ todo # << >> /\ todo' = << >> /\ end' = "crashed"
  /\ UNCHANGED <<ks, version, disk, touched, by, fresh, count>>

\* The Kconfig files change.
Upgrade ==
  /\ todo = << >> /\ count < MaxCommands
  /\ version' \in DOMAIN Versions \ {version}
  /\ UNCHANGED <<ks, disk, todo, touched, by, fresh, end, count>>

Next == Command \/ Step \/ BackupFails \/ Crash \/ Upgrade

Spec == Init /\ [][Next]_vars

----------------------------------------------------------------------------
LineOf(lines, s) == SelectSeq(lines, LAMBDA line : line.sym = s)

\* The values a file has, without any calculation: a symbol that is not in it
\* is n or empty, and a choice is what its values say.
FileValue(kv, lines, s) ==
  LET l == LineOf(lines, s)
  IN  IF l = << >> \/ Head(l).val = "unset" THEN Zero
      ELSE [val |-> Head(l).val, tri |-> IF kv.ty[s] \in Tristates THEN Tri(Head(l).val) ELSE 0]
FileChoice(kv, lines, c) ==
  LET on(t) == {s \in ToSet(ValuesOf(kv, c)) : FileValue(kv, lines, s).tri = t}
  IN  CASE on(2) # {} -> [val |-> CHOOSE s \in on(2) : TRUE, tri |-> 2]
        [] on(2) = {} /\ on(1) # {} -> [val |-> "", tri |-> 1]
        [] OTHER -> Zero
FileValues(kv, lines) ==
  [s \in DOMAIN kv.ty |->
     CASE s \in Builtin -> [val |-> s, tri |-> Static[s]]
       [] s \in Consts \ Builtin -> [val |-> s, tri |-> 0]
       [] OTHER -> IF s \in kv.choices THEN FileChoice(kv, lines, s) ELSE FileValue(kv, lines, s)]

\* Whatever command wrote the configuration, the file has values that the
\* statements of the Kconfig it was written with allow.
FilesAreLegal ==
  Has("config") => Legal(blocks[by], FileValues(ks[by], disk["config"]), ks[by].ty, NumOf)

\* A configuration that was written is read again without a change, nothing in
\* it is asked for, and writing it gives the same lines, where nothing depends
\* on itself.
Stable(kv, st) ==
  /\ ~st.changed
  /\ Update(kv, st, 1).asked = {}
  /\ ConfWrite(kv, st)[2] = disk["config"]
SavedIsStable ==
  Has("config") /\ ~Recursive(blocks[by]) =>
    Stable(ks[by], ConfRead(ks[by], Begin(ks[by], "listnewconfig", FALSE, << >>), disk["config"]))

\* make savedefconfig, then make defconfig gives the configuration again,
\* where nothing depends on itself.
Reader(mode) == Begin(k, mode, FALSE, << >>)
ConfigNow ==
  IF Has("config") THEN ConfRead(k, Reader("oldconfig"), disk["config"])
  ELSE ReadNothing(k, Reader("oldconfig"))
FromDefconfig(lines) == AllNew(k, ConfRead(k, Reader("defconfig"), lines), "default", 0)[1]
DefconfigReproduces ==
  [][(/\ Len(todo) = 1 /\ Head(todo).file = "defconfig" /\ todo' = << >> /\ end' = end
      /\ ~Recursive(blocks[version])) =>
       ConfWrite(k, FromDefconfig(disk'["defconfig"]))[2] = ConfWrite(k, ClearAllValid(k, ConfigNow))[2]]_vars

\* Wherever a command fails or crashes, the configuration is not gone: the step
\* that takes its place leaves it under its .old name, unless just that rename
\* failed, which conf_write ignores (confdata.c:825-826).
ConfigIsKept ==
  [][(/\ Has("config") /\ end # "unkept"
      /\ "config" \notin DOMAIN disk' \/ disk'["config"] # disk["config"]) =>
       "old" \in DOMAIN disk' /\ disk'["old"] = disk["config"]]_vars

\* What autoconf.h and tristate.conf may say where auto.conf has a line.
Defined(line) ==
  {line, Line(line.sym, "0x" \o line.val)}
    \cup (CASE line.val = "y" -> {Line(line.sym, "1")}
            [] line.val = "m" -> {Line(line.sym \o "_MODULE", "1")}
            [] OTHER -> {})
Capitals(lines) == {Line(line.sym, Capital[line.val]) : line \in {l \in ToSet(lines) : l.val \in DOMAIN Capital}}

\* confdata.c: auto.conf "must be the last step ... this marks the successful
\* completion of the previous steps": while it is newer than the configuration,
\* every line of it has its definition in autoconf.h, which has no other, and
\* tristate.conf says nothing else.
AutoMarksCompletion ==
  fresh =>
    /\ {"header", "tristate"} \subseteq DOMAIN disk
    /\ Len(disk["header"]) = Len(disk["auto"])
    /\ \A i \in DOMAIN disk["auto"] : disk["header"][i] \in Defined(disk["auto"][i])
    /\ ToSet(disk["tristate"]) \subseteq Capitals(disk["auto"])

\* What depends on a symbol is made again: every symbol whose value in auto.conf
\* changes was touched before, unless its type no longer allows the old value
\* (such a symbol that is now n is taken for one without an old value).
ChangedIsTouched ==
  [][("auto" \in DOMAIN disk' /\ (~Has("auto") \/ disk'["auto"] # disk["auto"])) =>
       LET old == IF Has("auto") THEN ToSet(disk["auto"]) ELSE {}
           new == ToSet(disk'["auto"])
           readable == {line \in old : line.sym \in DOMAIN k.ty => Accepts(k.ty[line.sym], line.val)}
       IN  {line.sym : line \in (readable \ new) \cup (new \ old)} \subseteq touched]_vars

\* No command asks the same question for ever.
CommandsEnd == end # "spins"

\* conf_parse reports a recursive dependency exactly when the statements have
\* one, and the symbols of the message are one: each needs the next at once.
Needs(bs, s, t) == Node(bs, s) = Node(bs, t) \/ Node(bs, t) \in Needed(bs, Node(bs, s))
IsLoop(bs, loop) ==
  loop # << >> /\ \A i \in DOMAIN loop : Needs(bs, loop[i], loop[(i % Len(loop)) + 1])
LoopsAreReported ==
  \A loops \in {ReportedLoops(k)} :
    /\ (loops # {}) = Recursive(blocks[version])
    /\ \A loop \in loops : IsLoop(blocks[version], loop)
============================================================================
