------------------------------ MODULE MCLives ------------------------------
EXTENDS Lives, TLC

MCUsers == "alice" :> 7
MCGroups == "alice" :> 7 @@ "wheel" :> 3
MCOwners == {[uid |-> 0, gid |-> 0], [uid |-> 7, gid |-> 7]}

Unset == [by |-> "unset"]
Id(n) == [by |-> "id", id |-> n]
Named(n) == [by |-> "name", name |-> n]

Sh    == <<"bin", "sh">>            \* a program, and the name it gives

One   == [name |-> << <<"one">> >>, prog |-> Sh, user |-> Named("alice"),
          group |-> Named("wheel"), autostart |-> TRUE, log_buffer_size |-> None]
Two   == [One EXCEPT !.name = << <<"two">> >>, !.user = Named("bob"), !.group = Unset]
ByPath == [One EXCEPT !.name = None, !.user = Id(7), !.group = Id(7)]
Idle  == [Two EXCEPT !.autostart = FALSE]
Sized(a, n) == [a EXCEPT !.log_buffer_size = <<n>>]

Entry(a) == [kind |-> "app", app |-> a]
Other(kind) == [kind |-> kind]

File(apps, dir) ==
    [kind |-> "config", log_buffer_size |-> 4, max_mio_tokens |-> 6,
     apps |-> apps, apps_dir |-> dir]

Symmetry == Permutations(Procs)

MCConfigFiles ==
    { [kind |-> "missing"], [kind |-> "garbled"],
      [File(<<One>>, {}) EXCEPT !.log_buffer_size = 3],
      File(<<One>>, {}),
      File(<<One>>, {Entry(Two), Other("garbled"), Other("itself")}),
      File(<<>>, {Entry(ByPath), Entry(Idle), Other("unreadable")}),
      File(<<One, Sized(Two, 2)>>, {}),
      File(<<One, Sized(Two, 0)>>, {}),
      [File(<<One, Sized(Two, 8)>>, {}) EXCEPT !.max_mio_tokens = 5] }
=============================================================================
