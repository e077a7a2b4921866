------------------------------ MODULE MCInetd ------------------------------
(* One datagram service and one stream service, in one configuration file *)
(* or in two.                                                             *)
EXTENDS Inetd

CONSTANTS ntalk, finger

\* A file, by what it says of the two services.
File(n, f) == [s \in {ntalk, finger} |-> IF s = ntalk THEN n ELSE f]

\* The datagram service, always wait, is removed and comes back; the stream
\* service is made nowait and wait, or moved to a second file, where each reload
\* purges it.
AllConfigs == {<<File("wait", "wait")>>, <<File("absent", "nowait")>>,
               <<File("wait", "absent"), File("absent", "wait")>>}

\* The configuration is never changed.
OneConfig == {<<File("wait", "nowait")>>}

TwoPids == {2, 3}
=============================================================================
