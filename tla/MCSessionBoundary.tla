------------------------- MODULE MCSessionBoundary -------------------------
(***************************************************************************)
(* Small instances of the worker boundary for TLC.                         *)
(***************************************************************************)
EXTENDS SessionBoundary

Config(local, deadline, live, posix, unicode, records) ==
  [local |-> local, deadline |-> deadline, live |-> live, posix |-> posix,
   unicode |-> unicode, records |-> records]

(* The live driver on POSIX; and the headless one on Windows with a local  *)
(* project and records that are not in ASCII, on POSIX with a deadline,    *)
(* and with a source that emits.                                           *)
MCConfigs == {Config(FALSE, FALSE, TRUE, TRUE, FALSE, 0),
              Config(TRUE, FALSE, FALSE, FALSE, TRUE, 0),
              Config(FALSE, TRUE, FALSE, TRUE, FALSE, 0),
              Config(FALSE, FALSE, FALSE, TRUE, FALSE, 1)}

(* The live driver on Windows, where it notices a worker's death by itself,*)
(* and the headless one with a deadline, for what must eventually happen.  *)
MCFairConfigs == {Config(FALSE, FALSE, TRUE, FALSE, FALSE, 0),
                  Config(FALSE, TRUE, FALSE, TRUE, FALSE, 0)}

(* The live driver on POSIX with a local project.                          *)
MCLiveConfigs == {Config(TRUE, FALSE, TRUE, TRUE, FALSE, 0)}

(* The live driver on Windows, where it does notice a dead worker.         *)
MCLiveWindowsConfigs == {Config(FALSE, FALSE, TRUE, FALSE, FALSE, 0)}

(* The live driver on POSIX, and records that are not in ASCII.            *)
MCUnicodeConfigs == {Config(FALSE, FALSE, TRUE, TRUE, TRUE, 0)}
=============================================================================
