----------------------------- MODULE HookBlocks -----------------------------
(* The blocks codewatch keeps in a repository's pre-commit and post-commit     *)
(* hook, files a user edits too.  A command rewrites each file as a whole, one *)
(* after the other, and may fail between them or be cut off in a write.        *)
EXTENDS Naturals, Sequences, SequencesExt

CONSTANTS Lines,         \* the lines a user may add to a hook
          NoHook,        \* the hook does not exist
          Unknown,       \* nothing is promised of the hook's block
          MaxCommands, MaxEdits

Hooks == {"pre", "post"}
Shebang == "#!/bin/sh"
Begin   == "begin"
End     == "end"

VARIABLES hook,       \* each hook's lines; blank lines at the end are left out
          command,    \* the command's writes still to do
          commands, userEdits,
          lost,        \* hooks cut off in a write, or installed over unread
          own,        \* history: the user's lines of each hook
          promised    \* history: the block each hook has after the commands so far
blockVars == <<hook, command, commands, userEdits, lost, own, promised>>

BlockLines == {Begin, "diff", "index", "check", "auto-update", End}
AllLines   == Lines \cup {Shebang} \cup BlockLines

(* A user's line is not a marker, and no hook at all is not a hook's text.     *)
ASSUME BlocksAssumption ==
  /\ Lines # {} /\ {Begin, End} \cap Lines = {}
  /\ NoHook \notin Seq(AllLines)

(* -------------------------------------------------------------------------- *)
(* The lines outside blocks; a block that is not closed runs to the end.       *)
Closes_Never(line) == FALSE   \* a mutant: the end marker is not looked for

Closes(line) == line = End

ReadLine(was, line) ==
  IF was.inside THEN [was EXCEPT !.inside = ~Closes(line)]
  ELSE IF line = Begin THEN [was EXCEPT !.inside = TRUE]
  ELSE [was EXCEPT !.out = Append(@, line)]

StripBlock(lines) ==
  LET after[i \in 0..Len(lines)] ==
        IF i = 0 THEN [inside |-> FALSE, out |-> <<>>] ELSE ReadLine(after[i - 1], lines[i])
  IN after[Len(lines)].out

RenderBlock(options) ==
  <<Begin>> \o (IF options.style THEN <<"diff">> ELSE <<>>)
            \o (IF options.graph THEN <<"index", "check">> ELSE <<>>) \o <<End>>

RenderAutoUpdateBlock == <<Begin, "auto-update", End>>

WithBlock(file, block) == (IF file = NoHook THEN <<Shebang>> ELSE StripBlock(file)) \o block
WithoutBlock(file)     == IF file = NoHook THEN NoHook ELSE StripBlock(file)

(* -------------------------------------------------------------------------- *)
BlocksInit ==
  /\ own \in [Hooks -> {NoHook, <<Shebang>> \o <<CHOOSE l \in Lines : TRUE>>}]
  /\ hook = own
  /\ command = <<>> /\ commands = 0 /\ userEdits = 0 /\ lost = {}
  /\ promised = [h \in Hooks |-> <<>>]

(* A write: the hook, its block from now on, <<>> for none.                    *)
Write(h, block) == [hook |-> h, block |-> block]

StartCommand(writes) ==
  /\ command = <<>> /\ commands < MaxCommands
  /\ commands' = commands + 1
  /\ command' = writes
  /\ UNCHANGED <<hook, userEdits, lost, own, promised>>

(* hook install; without either check it would write an empty block and fails. *)
RunInstall(options) ==
  /\ options.style \/ options.graph
  /\ StartCommand(<<Write("pre", RenderBlock(options)),
                    Write("post", IF options.graph THEN RenderAutoUpdateBlock ELSE <<>>)>>)

RunRemove == StartCommand(<<Write("pre", <<>>), Write("post", <<>>)>>)

(* graph init --hook leaves the post-commit hook alone.                        *)
RunGraphInit == StartCommand(<<Write("pre", RenderBlock([style |-> TRUE, graph |-> TRUE]))>>)

After(w) == IF w.block = <<>> THEN WithoutBlock(hook[w.hook]) ELSE WithBlock(hook[w.hook], w.block)

WriteHook ==
  /\ command # <<>>
  /\ LET w == Head(command)
     IN /\ hook' = [hook EXCEPT ![w.hook] = After(w)]
        /\ own' = IF own[w.hook] = NoHook /\ w.block # <<>>
                  THEN [own EXCEPT ![w.hook] = <<Shebang>>] ELSE own
        /\ promised' = [promised EXCEPT ![w.hook] = w.block]
  /\ command' = Tail(command)
  /\ UNCHANGED <<commands, userEdits, lost>>

(* A hook that cannot be read is taken for one that does not exist: install    *)
(* writes over it, remove leaves it alone and goes on.                         *)
ReadFails ==
  /\ command # <<>> /\ hook[Head(command).hook] # NoHook
  /\ LET w == Head(command)
     IN IF w.block = <<>> THEN UNCHANGED <<hook, lost, promised>>
        ELSE /\ hook' = [hook EXCEPT ![w.hook] = WithBlock(NoHook, w.block)]
             /\ lost' = lost \cup {w.hook}
             /\ promised' = [promised EXCEPT ![w.hook] = Unknown]
  /\ command' = Tail(command)
  /\ UNCHANGED <<commands, userEdits, own>>

(* The hook cannot be written: the command ends with what it has done.         *)
WriteFails ==
  /\ command # <<>>
  /\ command' = <<>>
  /\ UNCHANGED <<hook, commands, userEdits, lost, own, promised>>

(* Killed in the write: the beginning of the new text is there.                *)
WriteIsCut ==
  /\ command # <<>>
  /\ LET w == Head(command)
     IN /\ After(w) # NoHook
        /\ \E n \in 0..(Len(After(w)) - 1) : hook' = [hook EXCEPT ![w.hook] = SubSeq(After(w), 1, n)]
        /\ lost' = lost \cup {w.hook}
        /\ promised' = [promised EXCEPT ![w.hook] = Unknown]
  /\ command' = <<>>
  /\ UNCHANGED <<commands, userEdits, own>>

(* The user adds a line anywhere outside the block, in an editor that is not   *)
(* open while a command runs.                                                  *)
InsideAt(lines, i) ==
  \E b, e \in DOMAIN lines : lines[b] = Begin /\ lines[e] = End /\ b <= i /\ i < e

AddLine(h, line) ==
  /\ command = <<>> /\ userEdits < MaxEdits /\ hook[h] # NoHook
  /\ userEdits' = userEdits + 1
  /\ \E i \in {j \in 0..Len(hook[h]) : ~InsideAt(hook[h], j)} :
       /\ hook' = [hook EXCEPT ![h] = InsertAt(@, i + 1, line)]
       /\ own' = IF h \in lost THEN own
                 ELSE LET above == Len(StripBlock(SubSeq(hook[h], 1, i)))
                      IN [own EXCEPT ![h] = InsertAt(@, above + 1, line)]
  /\ UNCHANGED <<command, commands, lost, promised>>

BlocksNext ==
  \/ \E style, graph \in BOOLEAN : RunInstall([style |-> style, graph |-> graph])
  \/ RunRemove \/ RunGraphInit
  \/ WriteHook \/ ReadFails \/ WriteFails \/ WriteIsCut
  \/ \E h \in Hooks, l \in Lines : AddLine(h, l)

BlocksSpec == BlocksInit /\ [][BlocksNext]_blockVars

(* -------------------------------------------------------------------------- *)
(* Whatever is installed, installed anew, removed, fails half way or is edited *)
(* in between: unless a write of the hook itself was cut off or went over a    *)
(* hook that could not be read, it has the user's lines and no others outside  *)
(* the block, in the user's order, and one block, the last one written, or     *)
(* none.                                                                       *)
UserLinesStay ==
  \A h \in Hooks \ lost :
    /\ hook[h] = NoHook <=> own[h] = NoHook
    /\ hook[h] # NoHook =>
         \E n \in 0..Len(own[h]) :
           hook[h] = SubSeq(own[h], 1, n) \o promised[h] \o SubSeq(own[h], n + 1, Len(own[h]))
=============================================================================
