---------------------------- MODULE MCInstallFlow ----------------------------
(***************************************************************************)
(* InstallFlow with two disks, one of which also has a symbolic link, both *)
(* holding an earlier installation; webhooks for every event, and remote   *)
(* files that complete or contradict the local configuration.              *)
(***************************************************************************)
EXTENDS InstallFlow

AnyText == STRING

Paths == [p \in {"/dev/sda", "/dev/sdb", "/dev/disk/by-id/a"} |->
            IF p = "/dev/sdb" THEN p ELSE "/dev/sda"]
URLs == [a \in {"host", "https://host:443"} |-> "https://host:443"]

Hook(e) == [event |-> e, renders |-> TRUE]
AllEvents == <<Hook("STARTED"), Hook("SUCCEEDED"), Hook("FAILED")>>

\* What the kernel command line or userdata.yaml hands to an automatic installation.
Automatic ==
  {[ZeroConfig EXCEPT !.automatic = TRUE, !.configURL = u, !.mode = m, !.method = mt,
                      !.vipMode = v, !.device = d, !.wipeAllDisks = w,
                      !.rawImage = r] :
     u, w, r \in BOOLEAN, m \in {Blank, "create", "install"}, mt \in {"dhcp", "DHCP"},
     v \in {Blank, "DHCP"}, d \in {"/dev/sda", "/dev/disk/by-id/a"}}

\* What the wizard leaves behind.
Interactive ==
  {c \in {[ZeroConfig EXCEPT !.mode = m, !.method = mt, !.configURL = u,
                             !.role = "default", !.vipMode = v, !.vip = "ip",
                             !.vipHwAddr = IF v = "dhcp" THEN "mac" ELSE Blank,
                             !.serverURL = IF m = "join" THEN "https://host:443" ELSE Blank,
                             !.device = "/dev/sda", !.dataDisk = d, !.wipeDisks = w,
                             !.forceMBR = b] :
            m \in {"create", "join", "install"}, mt \in {"dhcp", "static"},
            v \in {"dhcp", "static"}, d \in {Blank, "/dev/sda", "/dev/sdb"},
            u, b \in BOOLEAN, w \in {<<>>, <<"/dev/sdb">>}} :
     c.mode # "create" => c.vipMode = "static"}

AllLocals == Automatic \cup Interactive

RemoteFiles ==
  {[ZeroConfig EXCEPT !.mode = "create", !.method = "static", !.vipMode = "static",
                      !.vip = "ip", !.hooks = AllEvents, !.dataDisk = "/dev/sdb"],
   [ZeroConfig EXCEPT !.mode = "join", !.serverURL = "host", !.role = "witness",
                      !.skipChecks = TRUE, !.dataDisk = "/dev/sda",
                      !.hooks = <<Hook("STARTED"), Hook("STARTED"), Hook("FAILED")>>],
   [ZeroConfig EXCEPT !.mode = "install", !.method = "dhcp",
                      !.hooks = <<Hook("SUCCEEDED"), [event |-> "DONE", renders |-> FALSE]>>],
   [ZeroConfig EXCEPT !.serverURL = "host/path", !.role = "storage",
                      !.wipeDisks = <<"/dev/sdb">>]}
=============================================================================
