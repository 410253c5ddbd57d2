------------------------------- MODULE Probes -------------------------------
(***************************************************************************)
(* The probes of collect() that take several steps.  They share nothing:   *)
(* collect() runs one after the other and each returns its panel, so a     *)
(* behaviour is that of one of them, beside the system it asks.  The list  *)
(* of failed logins is a probe of its own here.                            *)
(***************************************************************************)
EXTENDS MongoPanel, DploPanel, OpenVPNPanel, RedisPanel, BanLog, SshLogins,
        RabbitPanel, GoModelPanel, DisksPanel

CONSTANT Panels  \* the probes to look at

VARIABLE probe

storeVars == <<mongoVars, redisVars, rabbitVars>>
hostVars == <<dploVars, disksVars, gomodelVars>>
accessVars == <<vpnVars, banVars, sshVars, loginVars>>

vars == <<storeVars, hostVars, accessVars, probe>>

AllPanels == {"mongo", "redis", "rabbit", "dplo", "disks", "gomodel",
              "openvpn", "fail2ban", "failures", "logins"}

ASSUME PanelsAssumption == Panels \subseteq AllPanels

-----------------------------------------------------------------------------
Init ==
  /\ MongoInit /\ RedisInit /\ RabbitInit
  /\ DploInit /\ DisksInit /\ GoModelInit
  /\ VPNInit /\ BanInit /\ SshInit /\ LoginsInit
  /\ probe \in Panels

\* The data stores.
StoresNext ==
  \/ probe = "mongo" /\ MongoNext /\ UNCHANGED <<redisVars, rabbitVars>>
  \/ probe = "redis" /\ RedisNext /\ UNCHANGED <<mongoVars, rabbitVars>>
  \/ probe = "rabbit" /\ RabbitNext /\ UNCHANGED <<mongoVars, redisVars>>

\* What the host runs.
HostNext ==
  \/ probe = "dplo" /\ DploNext /\ UNCHANGED <<disksVars, gomodelVars>>
  \/ probe = "disks" /\ DisksNext /\ UNCHANGED <<dploVars, gomodelVars>>
  \/ probe = "gomodel" /\ GoModelNext /\ UNCHANGED <<dploVars, disksVars>>

\* Who comes in.
AccessNext ==
  \/ probe = "openvpn" /\ VPNNext /\ UNCHANGED <<banVars, sshVars, loginVars>>
  \/ probe = "fail2ban" /\ BanNext /\ UNCHANGED <<vpnVars, sshVars, loginVars>>
  \/ probe = "failures" /\ SshNext /\ UNCHANGED <<vpnVars, banVars, loginVars>>
  \/ probe = "logins" /\ LoginsNext /\ UNCHANGED <<vpnVars, banVars, sshVars>>

Next ==
  \/ StoresNext /\ UNCHANGED <<hostVars, accessVars, probe>>
  \/ HostNext /\ UNCHANGED <<storeVars, accessVars, probe>>
  \/ AccessNext /\ UNCHANGED <<storeVars, hostVars, probe>>

Spec == Init /\ [][Next]_vars
-----------------------------------------------------------------------------
\* The state of every probe keeps its types: in particular no panel counts more
\* busy runs than there are, nor lists a database it was not told of, nor a
\* jail without bans when it was built from the log.
TypeOK ==
  /\ MongoTypeOK /\ RedisTypeOK /\ RabbitTypeOK
  /\ DploTypeOK /\ DisksTypeOK /\ GoModelTypeOK
  /\ VPNTypeOK /\ BanTypeOK /\ SshTypeOK /\ LoginsTypeOK

\* A panel without its data says why, whichever of its sources failed and in
\* whichever order: the reason of a failed step survives the steps after it
\* (CollectMongo, collectOpenVPN, CollectFail2ban).
Explained == MongoExplained /\ VPNExplained /\ BanExplained
=============================================================================
