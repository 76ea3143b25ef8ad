----------------------------- MODULE AutoFollow -----------------------------
(***************************************************************************)
(* start_following_new_master, step by step: recovery.conf (or             *)
(* postgresql.auto.conf) is read and compared, its successor written to a  *)
(* file beside it that is renamed over it, and PostgreSQL stopped and      *)
(* started.  Of a file only primary_conninfo matters, and of that the      *)
(* address.  Both files outlive the process, as does what it was killed in *)
(* the middle of.  Where the calls come from and what an exception leads   *)
(* to is in Process.tla.                                                   *)
(***************************************************************************)
EXTENDS Naturals

CONSTANTS MaxFaults   \* bound on failures and crashes

VARIABLES
  conf,     \* the address in recovery.conf, or Torn
  temp,     \* the one in <name>_temp, or Torn, or Absent
  server,   \* external: the address the own PostgreSQL replicates from, or Down
  step,     \* "no", or what comes next: "write", "rename", "stop" or "start"
  cut,      \* history: conf was changed and the restart after it was cut short
  faults

followVars == <<conf, temp, server, step, cut, faults>>

Down == "down"
Torn == "torn"       \* empty, or cut off somewhere
Absent == "absent"

FollowInit(addresses) ==
  /\ conf \in addresses /\ server = conf
  /\ temp = Absent
  /\ step = "no"
  /\ cut = FALSE /\ faults = 0

Fault == faults < MaxFaults /\ faults' = faults + 1

\* modify_recovery_conf_to_point_at_new_master, as far as the comparison: the
\* file says already what it should, ...
NothingToModify(address) ==
  /\ conf = address
  /\ UNCHANGED followVars

\* ... or <name>_temp is opened, which empties the one that an earlier attempt may
\* have left, ...
Modify(address) ==
  /\ conf # address
  /\ temp' = Torn
  /\ step' = "write"
  /\ UNCHANGED <<conf, server, cut, faults>>

\* ... or the directory, PG_VERSION or a file is not to be opened.
IOFails == Fault /\ UNCHANGED <<conf, temp, server, step, cut>>

\* Faulty variant: an error of the file system is logged as those of the commands are.
WriteSomehow(address) ==
  /\ step = "write"
  /\ step' = "rename"
  /\ \/ temp' = address /\ UNCHANGED faults
     \/ Fault /\ UNCHANGED temp
  /\ UNCHANGED <<conf, server, cut>>

\* write() and close() have both returned.
WriteTemp(address) ==
  /\ step = "write"
  /\ temp' = address
  /\ step' = "rename"
  /\ UNCHANGED <<conf, server, cut, faults>>

\* Whatever is in <name>_temp becomes recovery.conf.
Rename ==
  /\ step = "rename"
  /\ conf' = temp /\ temp' = Absent
  /\ step' = "stop"
  /\ UNCHANGED <<server, cut, faults>>

\* Faulty variant: PostgreSQL is told to start only.
StopSkipped ==
  /\ step = "stop"
  /\ step' = "start"
  /\ UNCHANGED <<conf, temp, server, cut, faults>>

\* execute_external_command(pg_stop_command); that the command failed is logged.
StopServer ==
  /\ step = "stop"
  /\ step' = "start"
  /\ \/ server' = Down /\ UNCHANGED <<cut, faults>>
     \/ Fault /\ cut' = TRUE /\ UNCHANGED server
  /\ UNCHANGED <<conf, temp>>

\* execute_external_command(pg_start_command): has no effect on a server that
\* runs, and ends start_following_new_master.
StartServer ==
  /\ step = "start"
  /\ step' = "no"
  /\ \/ /\ server' = IF server = Down THEN conf ELSE server
        /\ cut' = (cut /\ server # Down)
        /\ UNCHANGED faults
     \/ Fault /\ cut' = TRUE /\ UNCHANGED server
  /\ UNCHANGED <<conf, temp>>

\* The disk is full, or a command cannot be run at all (as the default, "").
FollowRaises ==
  /\ step # "no"
  /\ Fault
  /\ step' = "no"
  /\ cut' = (cut \/ step \in {"stop", "start"})
  /\ UNCHANGED <<conf, temp, server>>

\* The process is killed.
FollowKilled ==
  /\ Fault
  /\ step' = "no"
  /\ cut' = (cut \/ step \in {"stop", "start"})
  /\ UNCHANGED <<conf, temp, server>>

\* External: somebody else restarts PostgreSQL, which reads what there is.
ServerRestarts ==
  /\ server' = IF conf = Torn THEN Down ELSE conf
  /\ cut' = FALSE
  /\ UNCHANGED <<conf, temp, step, faults>>
-----------------------------------------------------------------------------
\* pglookout.py:771-774.  Whoever starts PostgreSQL, there is a complete file to
\* start from, at whatever moment the daemon was killed or the disk was full, and
\* whatever earlier attempts have left in <name>_temp.
ConfIsWhole == conf # Torn

\* pglookout.py:777-801.  PostgreSQL replicates from where recovery.conf says,
\* except during the steps between the rename and the start, and after these
\* were cut short: a later call finds nothing to modify and restarts nothing.
ServerFollowsConf == step \in {"stop", "start"} \/ cut \/ server = conf
=============================================================================
