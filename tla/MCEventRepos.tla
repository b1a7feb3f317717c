---------------------------- MODULE MCEventRepos ----------------------------
(***************************************************************************)
(* Instances of EventRepos for TLC: the identities "web" and "www" of two  *)
(* services; www keeps its data in mysql.  Metrics are also asked of a     *)
(* service "w", whose name both identities begin with.                     *)
(***************************************************************************)
EXTENDS EventRepos

MCServiceOf  == <<"web", "www">>
MCBeginsWith == [s \in {"web", "www", "w"} |->
                   CASE s = "web" -> {1} [] s = "www" -> {2} [] OTHER -> {1, 2}]

Section(service, instance, linger, step, type) ==
    [service_name |-> service, instance_name |-> instance,
     event_linger |-> linger, event_step |-> step,
     additional_process_step_size |-> {}, store_type |-> type]

(* The example file has no additional_process_step_size either.            *)
MCInitConf == << Section("[default]", "", {10}, {3}, {"leveldb"}),
                 Section("www", "www", {5}, {}, {"mysql"}) >>

(* www has another value; web has a section, by service_name only; the     *)
(* default is refused in part.                                             *)
MCConfs == { << Section("[default]", "", {0}, {4}, {}),
                Section("web", "", {7}, {}, {"mysql"}),
                Section("www", "www", {6}, {2}, {}) >> }

MCRequests == {Event(i) : i \in Identities} \cup {Metrics("w"), ListAll}
MCGarbage  == {-1, 9}

(* What ConfCurrent asks of the files.                                     *)
ASSUME MCFilesWellKept == FilesWellKept
=============================================================================
