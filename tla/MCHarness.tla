----------------------------- MODULE MCHarness ------------------------------
(* An XFS image with two of its three methods and two of the three builds. *)
EXTENDS Harness

MCParams == {"smoke", "full"}
MCApplies == {"vfs", "bulkstat"}
MCMethods == {{}, {"vfs"}, {"raw"}}
MCImpl == {"c", "rust"}
MCDigest == {"d1", "d2", "failed"}
=============================================================================
