----------------------------- MODULE UdpNetwork -----------------------------
(***************************************************************************)
(* udp_socket.cpp over UDP.  A datagram handed to UdpSocket::Send stays in *)
(* net for good: the socket it is addressed to may receive it at any later *)
(* time, any number of times or never, and in any order.  This covers      *)
(* loss, duplication, reordering and datagrams that lie in a socket's      *)
(* buffer from one transfer to the next.                                   *)
(***************************************************************************)
EXTENDS TrftpMessage

CONSTANT IoFails  \* sendto, recvfrom, and opening, reading and writing
                  \* files may fail

ASSUME IoAssumption == IoFails \in BOOLEAN

VARIABLE net

\* UdpSocket::Send, when sendto succeeds.
Send(m) == net' = net \cup {m}

\* UdpSocket::Receive can return m on the socket dst.
Receivable(m, dst) == m \in net /\ m.dst = dst
=============================================================================
