-------------------------- MODULE MCPrefetchSource --------------------------
(***************************************************************************)
(* A small instance of PrefetchSource for TLC.                             *)
(***************************************************************************)
EXTENDS PrefetchSource

\* One unit less than try_new demands, exactly what it demands for two queued
\* chunks of two units, and one unit more.
MCBudgets == {7, 8, 9}

\* An honest source, or one that skips a sequence number.
MCSkips == {0, 1}
=============================================================================
