---------------------------- MODULE MCArguments ----------------------------
(***************************************************************************)
(* All command lines of up to MaxTokens tokens: the options, the default   *)
(* names of two channels, the first of them with the current directory, a  *)
(* path, a slash alone, the longest name in a directory, names that are    *)
(* too long for semaphores and for everything, and a path that is too long.*)
(***************************************************************************)
EXTENDS Arguments, SequencesExt

CONSTANT MaxTokens

OptionToken(text) ==
  [text |-> text, dash |-> TRUE, lead |-> FALSE, last |-> -1, length |-> 6]
Path(text, lead, last, length) ==
  [text |-> text, dash |-> FALSE, lead |-> lead, last |-> last, length |-> length]
TriedTokens ==
  {OptionToken(o) : o \in OptionTexts} \cup
  {DefaultName["--pipe"], DefaultName["--shm"],
   Path("PipeIPC", TRUE, CwdLength, CwdLength + 8), Path("dir/file", FALSE, 3, 8),
   Path("", TRUE, 0, 1), Path("dir/longest", FALSE, 3, NameMax + 4),
   Name("longer", FALSE, NameMax), Name("long", FALSE, NameMax + 1),
   Path("deep", FALSE, PathMax + 1, PathMax + 3)}
AllLines == UNION {[1..n -> TriedTokens] : n \in 0..MaxTokens}
=============================================================================
