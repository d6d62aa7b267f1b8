------------------------------ MODULE MCDevices ------------------------------
(***************************************************************************)
(* Buffer cache, disk driver, file system and console of Linux 0.01, each  *)
(* on its own: a behaviour is one of the unit it chose at the start.       *)
(***************************************************************************)
EXTENDS MCBufferCache, MCHardDisk, MCFileSystem, MCConsole

VARIABLE device

DevicesInit ==
  /\ device \in {"cache", "disk", "files", "console"}
  /\ BCInit /\ (device # "cache" => hashed = {})
  /\ HDInit /\ (device # "disk" => load = "few")
  /\ MFInit /\ (device # "files" => fload = "bytes")
  /\ MKInit /\ (device # "console" => k.y = 0)

Only(name) == device = name /\ UNCHANGED device

DevicesNext ==
  \/ Only("cache") /\ BCNext /\ UNCHANGED <<hdvars, fsvars, k, chars>>
  \/ Only("disk") /\ HDNext /\ UNCHANGED <<bcvars, fsvars, k, chars>>
  \/ Only("files") /\ MFNext /\ UNCHANGED <<bcvars, hdvars, k, chars>>
  \/ Only("console") /\ MKNext /\ UNCHANGED <<bcvars, hdvars, fsvars>>

DevicesSpec == DevicesInit /\ [][DevicesNext]_<<device, bcvars, hdvars, fsvars, k, chars>>

=============================================================================
