------------------------------- MODULE Config -------------------------------
(***************************************************************************)
(* The configuration of a daemon (config.rs, parser.rs) and what becomes   *)
(* of an application's entry when main reads it: the log buffer's size,    *)
(* the name, and the user and group the program runs as (uidgid.rs).  Text *)
(* is left out: a file is missing, unreadable, garbled, or its content.    *)
(***************************************************************************)
EXTENDS Integers, Sequences, SequencesExt

CONSTANTS
    PageSize,
    Users, Groups       \* the ids that getpwnam and getgrnam know, by name

ASSUME ConfigAssumption ==
    /\ PageSize \in Nat \ {0}
    /\ \A n \in DOMAIN Users : Users[n] \in Nat
    /\ \A n \in DOMAIN Groups : Groups[n] \in Nat

None == <<>>                \* an Option is a sequence of at most one value
Option(S) == {o \in Seq(S) : Len(o) <= 1}

(* The name of an application is a path of its cgroup, and not empty. *)
Names == Seq(STRING) \ {<<>>}

UserOrGroup ==
    [by : {"unset"}] \cup [by : {"id"}, id : Nat] \cup [by : {"name"}, name : STRING]

(* AppConfig *)
AppEntries ==
    [name : Option(Names), prog : Names, user : UserOrGroup, group : UserOrGroup,
     autostart : BOOLEAN, log_buffer_size : Option(Nat)]

DirEntries ==
    [kind : {"app"}, app : AppEntries] \cup [kind : {"garbled", "unreadable", "itself"}]

(* GlobalConfig, with the files in apps_dir, or why there is none. *)
Files ==
    [kind : {"missing", "garbled", "unreadable"}] \cup
    [kind : {"config"}, log_buffer_size : Nat, max_mio_tokens : Nat,
     apps : Seq(AppEntries), apps_dir : SUBSET DirEntries]

(* validate_log_buffer_size; zero pages pass. *)
ValidLogBufferSize(size) == size % PageSize = 0

(* mmap_ring_buffer, as CircularMappedMemFdBuffer::new uses it: a mapping of
   no bytes is refused. *)
RingMapped(size) == size % PageSize = 0 /\ size > 0

(* GlobalConfig::load *)
Loads(file) == file.kind = "config" /\ ValidLogBufferSize(file.log_buffer_size)

(* Mutant: a file that is not an application ends the scan. *)
ScanAppsDir_StopsAtGarbage(entries) ==
    LET good == {n \in 0..Len(entries) :
                    \A i \in 1..n : entries[i].kind = "app"}
        n == CHOOSE m \in good : \A k \in good : k <= m
    IN [i \in 1..n |-> entries[i].app]

(* scan_apps_dir, entry by entry: what is no application, other files and the
   global configuration itself included, is passed over. *)
ScanAppsDir(entries) ==
    LET apps[n \in 0..Len(entries)] ==
            IF n = 0 THEN <<>>
            ELSE IF entries[n].kind = "app" THEN Append(apps[n - 1], entries[n].app)
            ELSE apps[n - 1]
    IN apps[Len(entries)]

(* all_apps, for one of the orders in which read_dir may list apps_dir; a
   directory that is missing is as good as an empty one. *)
AllApps(file, entries) == file.apps \o ScanAppsDir(entries)

Listings(file) == SetToSeqs(file.apps_dir)

(* resolved_uid, resolved_gid: a name nobody has is dropped. *)
Resolved(id, table) ==
    CASE id.by = "id" -> <<id.id>>
      [] id.by = "name" /\ id.name \in DOMAIN table -> <<table[id.name]>>
      [] OTHER -> None

OrElse(option, default) == IF option = None THEN default ELSE option[1]

(* main: what App::create is given for an entry of the configuration. *)
AppParams(entry, file, own) ==
    [name |-> OrElse(entry.name, entry.prog),
     uid  |-> OrElse(Resolved(entry.user, Users), own.uid),
     gid  |-> OrElse(Resolved(entry.group, Groups), own.gid),
     autostart |-> entry.autostart,
     log_buffer_size |-> OrElse(entry.log_buffer_size, file.log_buffer_size)]

-----------------------------------------------------------------------------
(* setup_child: the ids of the program, or Refused when it is not started.
   Only root may take other ids than its own. *)

Refused == [uid |-> -1, gid |-> -1]

SetGid(ids, gid) ==
    IF ids.uid = 0 \/ ids.gid = gid THEN [ids EXCEPT !.gid = gid] ELSE Refused

SetUid(ids, uid) ==
    IF ids # Refused /\ (ids.uid = 0 \/ ids.uid = uid)
    THEN [ids EXCEPT !.uid = uid] ELSE Refused

(* Mutant: the user is dropped first. *)
ChildIds_UidFirst(own, uid, gid) == SetGid(SetUid(own, uid), gid)

ChildIds(own, uid, gid) == SetUid(SetGid(own, gid), uid)
=============================================================================
