---------------------------- MODULE MCPlatCenter ----------------------------
(* Small instances of PlatCenter: how many rows each table ever gets. *)
EXTENDS PlatCenter, TLC

Rows(ad, ar, g, ac, l, d, s) ==
    [t \in Tables |-> CASE t = "admins" -> ad [] t = "areas" -> ar [] t = "groups" -> g
                        [] t = "accounts" -> ac [] t = "links" -> l [] t = "devices" -> d
                        [] t = "servers" -> s]

MCTree    == Rows(1, 2, 2, 0, 2, 1, 0)   \* areas, devices, groups, links
MCServers == Rows(1, 1, 1, 1, 0, 1, 2)   \* devices, servers, accounts
MCRoots   == Rows(2, 2, 2, 0, 0, 0, 0)   \* first visitors

MCDecode == [n \in Serials |-> 1]        \* two texts that mean the same serial number

Symmetry == Permutations(Requests)

=============================================================================
