----------------------------- MODULE WriteReport ----------------------------
(***************************************************************************)
(* What the exit of the remote write script says about the target file.    *)
(* FileWrite shows that the script keeps to it; GovernedCommand uses it.   *)
(***************************************************************************)

\* "nonzero" is an exit status from 64 to 68, "odd" any other failure, "short" a
\* command that did not take all of the content, "cut" output beyond the limit.
WriteReports == {"exit0", "cut", "nonzero", "transport", "odd", "short"}

\* Whether the new content can have landed.
WriteEffects(r) ==
  CASE r \in {"exit0", "cut"} -> {TRUE}
    [] r \in {"nonzero", "short"} -> {FALSE}
    [] OTHER -> BOOLEAN
=============================================================================
