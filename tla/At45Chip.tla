------------------------------ MODULE At45Chip ------------------------------
(***************************************************************************)
(* An AT45 DataFlash chip as drivers/flash and drivers/block/dataflash.c   *)
(* use it.  The chip is not in the repository: this is what the driver     *)
(* relies on.  It takes one command each time it is selected; it begins to *)
(* load its page buffer, or to program a page from it, when it is          *)
(* deselected, and until it has finished it answers nothing but the status *)
(* command.                                                                *)
(*                                                                         *)
(* Data is counted in blocks of 512 bytes and a page has PageBlocks of     *)
(* them.  The operators take the chip's state and return the new one.      *)
(***************************************************************************)
EXTENDS Naturals

CONSTANTS
    Pages,          \* number of pages
    PageBlocks,     \* blocks in a page
    Value           \* what a block can hold

ASSUME ChipAssumption == Pages \in Nat \ {0} /\ PageBlocks \in Nat \ {0}

Block == 0 .. Pages * PageBlocks - 1

Idle == [op |-> "none", page |-> 0]

Chip == [selected : BOOLEAN,
         cmd : {"none", "status", "id", "read", "buffer_write", "load", "program"},
         page : Nat, pos : Nat,         \* the address of the command
         work : [op : {"none", "load", "program"}, page : Nat],
         buffer : [0 .. PageBlocks - 1 -> Value],
         flash : [Block -> Value]]

\* Only a change of the select line starts a new command.
Selected(c) == IF c.selected THEN c ELSE [c EXCEPT !.selected = TRUE, !.cmd = "none"]

Deselected(c) ==
    [c EXCEPT !.selected = FALSE,
              !.cmd = "none",
              !.work = IF c.cmd \in {"load", "program"}
                       THEN [op |-> c.cmd, page |-> c.page] ELSE @]

\* The bytes of a command: data of the command before it unless they come first.
Commanded(c, k) ==
    IF c.selected /\ c.cmd = "none" /\ (c.work = Idle \/ k.op = "status")
    THEN [c EXCEPT !.cmd = k.op, !.page = k.page, !.pos = k.pos]
    ELSE c

Ready(c) == c.work = Idle

\* One block written to the page buffer, which wraps around.
Written(c, v) ==
    IF c.cmd = "buffer_write"
    THEN [c EXCEPT !.buffer[c.pos % PageBlocks] = v, !.pos = @ + 1]
    ELSE c

\* One block of a continuous read, or noise.
BlockOut(c, noise) ==
    IF c.cmd = "read"
    THEN c.flash[(c.page * PageBlocks + c.pos) % (Pages * PageBlocks)] ELSE noise

BlockRead(c) == [c EXCEPT !.pos = @ + 1]

\* The end of what the chip does by itself.
Finished(c) ==
    LET base == (c.work.page % Pages) * PageBlocks
    IN  IF c.work.op = "load"
        THEN [c EXCEPT !.work = Idle,
                       !.buffer = [i \in DOMAIN @ |-> c.flash[base + i]]]
        ELSE [c EXCEPT !.work = Idle,
                       !.flash = [b \in Block |-> IF b \div PageBlocks = c.work.page % Pages
                                                  THEN c.buffer[b % PageBlocks] ELSE @[b]]]
=============================================================================
