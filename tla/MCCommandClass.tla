---------------------------- MODULE MCCommandClass ---------------------------
(* Ten ordinary pieces, and one of each special kind to be written literally; *)
(* the words that are quoted are those that quoting could get wrong.          *)
EXTENDS CommandClass

MCPiece == 
  {Single, Double, Backslash, Newline, Blank, "|", ">", "$", "*", "#", "~",
   "rm", "ls", "cp", "mkdir", "sudo", "-r", "-f", "--", "/etc/", "X="}

MCArgument == SeqOf({Single, Backslash, "$", "rm"}, 2)
=============================================================================
