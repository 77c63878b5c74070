---------------------------- MODULE CoreQueries ----------------------------
(***************************************************************************)
(* What the core says of itself (src/usbscpi.c).  usbscpi_init seeds a     *)
(* table of commands that usbscpi_register extends and that libscpi and    *)
(* SYSTem:HELP:HEADers? walk to its end mark.  That query writes a page of *)
(* the table if the page fits one response; the host asks for one page     *)
(* after the other until one is short (host/rust/src/headers.rs).          *)
(* SYSTem:HELP:DESCription? renders the application's descriptor into the  *)
(* I/O buffer, all of it or nothing.                                       *)
(*                                                                         *)
(* These are functions of the configuration: a command is its pattern, and *)
(* a text is the widths of the pieces it is printed from.                  *)
(***************************************************************************)
EXTENDS DataRead, Sequences, SequencesExt

End == "end"   \* a cell whose pattern is NULL

------------------------------------------------------------------------------
(* The command table: its cells, cell 0 first, and the count of commands *)

\* The zeroed storage.
Blank(max) == [cells |-> [i \in 0..max - 1 |-> End], count |-> 0]

\* The last cell is kept for the end mark.
Room(table, commands, max) == Least(Len(commands), max - 1 - table.count)

Filled(table, commands, n) ==
  [cells |-> [i \in DOMAIN table.cells |->
                IF i \in table.count..table.count + n - 1
                THEN commands[i - table.count + 1] ELSE table.cells[i]],
   count |-> table.count + n]
Sealed(table) == [table EXCEPT !.cells[table.count] = End]

\* usbscpi_init takes the core's commands, as many as fit.
Seeded(core, max) == Sealed(Filled(Blank(max), core, Room(Blank(max), core, max)))

\* usbscpi_register: on overflow the commands before the one too many stay, and
\* the end mark is the one the storage was zeroed to.
RegisterFails(table, commands, max) == Room(table, commands, max) < Len(commands)
Registered(table, commands, max) ==
  LET filled == Filled(table, commands, Room(table, commands, max))
  IN IF RegisterFails(table, commands, max) THEN filled ELSE Sealed(filled)

\* How far `for (cmd = cmd_merged; cmd->pattern; cmd++)` walks.
Walk(table) == CHOOSE n \in DOMAIN table.cells :
                 table.cells[n] = End /\ \A i \in 0..n - 1 : table.cells[i] # End

------------------------------------------------------------------------------
(* SYSTem:HELP:HEADers? [offset[,count]] *)

\* The commands from offset up to offset + count, a sum that wraps at word (2^32).
Page(table, offset, count, word) ==
  LET stop == Least(Walk(table), (offset + count) % word)
  IN [k \in 1..stop - offset |-> table.cells[offset + k - 1]]
AllOf(word) == word - 1   \* the count when none is given

\* Every pattern is written with a newline after it.
PageSize(page, width) == FoldLeft(LAMBDA size, p : size + width[p] + 1, 0, page)
PageFits(page, width, mtu) == mtu = 0 \/ PageSize(page, width) <= mtu

\* The page, or TOO_MUCH_DATA and not a byte.
HelpHeaders(table, offset, count, width, mtu, word) ==
  LET page == Page(table, offset, count, word)
  IN IF PageFits(page, width, mtu) THEN page ELSE <<>>

\* fetch_paged takes pages of `size` (at least 1) until one is short, which a
\* refused one is, or the pages it allows itself are spent.
FetchStart(pages) == [all |-> <<>>, offset |-> 0, left |-> pages, done |-> FALSE]
FetchStep(s, page, size) ==
  [all    |-> s.all \o page,
   offset |-> IF Len(page) < size THEN s.offset ELSE s.offset + Len(page),
   left   |-> s.left - 1,
   done   |-> Len(page) < size \/ s.left = 1]

------------------------------------------------------------------------------
(* SYSTem:HELP:DESCription?  A field that is NULL is an empty sequence.      *)

Overflow == -1

\* lr_printf: a piece that would not leave room for the terminating NUL fails, and
\* after a failure nothing more is printed.
LrPrintf(len, n, cap) ==
  IF len = Overflow \/ len >= cap \/ len + n >= cap THEN Overflow ELSE len + n

\* "WF <name>" and, for an old name, " renamed=<current>".
WorkflowPieces(wf, name, renamed) ==
  <<3 + name>> \o renamed \o wf.fields \o wf.failed \o FlattenSeq(wf.prompts) \o wf.result \o <<wf.times>>
CommandPieces(c) ==
  <<c.pattern>> \o c.kind \o c.summary \o FlattenSeq(c.params) \o c.returns \o <<1>>

\* Each workflow, then a copy under each of its old names.
Workflow(wf) ==
  WorkflowPieces(wf, wf.name, <<>>) \o
  FlattenSeq([k \in DOMAIN wf.renamedFrom |-> WorkflowPieces(wf, wf.renamedFrom[k], <<9 + wf.name>>)])
Pieces(desc) ==
  <<desc.dev>> \o
  FlattenSeq([i \in DOMAIN desc.commands |-> CommandPieces(desc.commands[i])]) \o
  FlattenSeq([i \in DOMAIN desc.workflows |-> Workflow(desc.workflows[i])])

\* The length of the text, or 0.
EmitDescriptor(desc, cap) ==
  LET len == FoldLeft(LAMBDA l, n : LrPrintf(l, n, cap), 0, Pieces(desc))
  IN IF len = Overflow THEN 0 ELSE len

\* cmd_syst_help_desc: the block, or the error that is queued.
HelpDescription(desc, bufLen, maxBlock) ==
  LET len == EmitDescriptor(desc, bufLen)
      Refused(why) == [error |-> why, block |-> 0]
  IN IF desc.none THEN Refused("UNDEFINED_HEADER")
     ELSE IF bufLen < 32 THEN Refused("EXECUTION_ERROR")
     ELSE IF len = 0 \/ (maxBlock # 0 /\ len > maxBlock) THEN Refused("TOO_MUCH_DATA")
     ELSE [error |-> "none", block |-> len]

------------------------------------------------------------------------------
\* A table has its commands, an end mark behind them, and nothing behind that.
Ended(table, max) ==
  /\ DOMAIN table.cells = 0..max - 1 /\ table.count \in 0..max - 1
  /\ \A i \in 0..max - 1 : table.cells[i] = End <=> i >= table.count
Listing(table) == [k \in 1..table.count |-> table.cells[k - 1]]
\* The host has the listing as far as it has come.
InPlace(s, table) ==
  /\ s.all = SubSeq(Listing(table), 1, Len(s.all)) /\ Len(s.all) <= table.count
  /\ ~s.done => s.offset = Len(s.all)
=============================================================================
