------------------------------- MODULE SockOps -------------------------------
(***************************************************************************)
(* The kernel side of the Linux engine: the sock_ops program of            *)
(* pkg/ebpf/bpf/sockops.bpf.c and the maps of pkg/ebpf/bpf/maps.h it       *)
(* shares with the user space manager (module EbpfManager).                *)
(*                                                                         *)
(* A Conn is one TCP socket of the machine, with one cookie; the kernel    *)
(* runs the program under the socket's lock, so a callback is one step.    *)
(***************************************************************************)
EXTENDS Integers, FiniteSets

CONSTANTS
    Conn,           \* the sockets
    Port, Ip,       \* destination ports and addresses
    V6, Zero,       \* the IPv6 addresses, and what remote_ip4 holds for them
    dstPort, dstIp, \* dstPort[c], dstIp[c]: where socket c connects to
    SegLens,        \* the skb_len values of outgoing segments
    RestoreAfterBytes, \* Config.RestoreAfterBytes, an int nobody validates
    CounterMod,     \* bytes_sent and restore_after_bytes are __u32: 2^32 in the code
    Neighbour,      \* another sock_ops program of the cgroup reserves header options
    MaxEntries,     \* size of the LRU map `connections`: 65536 in the code
    PerfCap,        \* events a perf ring holds before the kernel drops one
    MaxSent         \* bound: MaxSent[c] bytes are sent on socket c in the model

ASSUME ConnAssumption ==
    /\ IsFiniteSet(Conn)
    /\ dstPort \in [Conn -> Port]
    /\ dstIp \in [Conn -> Ip]
    /\ V6 \subseteq Ip
    /\ Zero \notin Ip
    /\ SegLens \subseteq Nat \ {0}
    /\ RestoreAfterBytes \in Int
    /\ Neighbour \in BOOLEAN
    /\ CounterMod \in Nat \ {0}
    /\ MaxEntries \in Nat \ {0}
    /\ PerfCap \in Nat
    /\ MaxSent \in [Conn -> Nat]

VARIABLES
    attached,     \* the program is attached to the cgroup
    enabled,      \* gecit_config.enabled
    targetPorts,  \* keys of the target_ports map
    excludeIps,   \* keys of the exclude_ips map
    tracked,      \* keys of the connections map
    bytesSent,    \* bytesSent[c]: the bytes_sent field, while c is tracked
    perfOpen,     \* user space has opened the perf ring
    perf,         \* sockets whose conn_event is in the ring
    sock,         \* sock[c]: "none" | "est" | "closed"
    mss,          \* mss[c]: "normal" | "small" | "restored"
    cbFlag,       \* cbFlag[c]: BPF_SOCK_OPS_WRITE_HDR_OPT_CB_FLAG is set
    sent          \* sent[c]: bytes c really sent (history)

mapVars    == <<enabled, targetPorts, excludeIps, tracked, bytesSent>>
perfVars   == <<perfOpen, perf>>
sockVars   == <<sock, mss, cbFlag, sent>>
kernelVars == <<attached, mapVars, perfVars, sockVars>>

KernelTypeOK ==
    /\ attached \in BOOLEAN
    /\ enabled \in BOOLEAN
    /\ targetPorts \subseteq Port
    /\ excludeIps \subseteq Ip
    /\ tracked \subseteq Conn
    /\ bytesSent \in [Conn -> Nat]
    /\ perfOpen \in BOOLEAN
    /\ perf \subseteq Conn
    /\ sock \in [Conn -> {"none", "est", "closed"}]
    /\ mss \in [Conn -> {"normal", "small", "restored"}]
    /\ cbFlag \in [Conn -> BOOLEAN]
    /\ sent \in [Conn -> Nat]

KernelInit ==
    /\ attached = FALSE
    /\ enabled = FALSE
    /\ targetPorts = {}
    /\ excludeIps = {}
    /\ tracked = {}
    /\ bytesSent = [c \in Conn |-> 0]
    /\ perfOpen = FALSE
    /\ perf = {}
    /\ sock = [c \in Conn |-> "none"]
    /\ mss = [c \in Conn |-> "normal"]
    /\ cbFlag = [c \in Conn |-> FALSE]
    /\ sent = [c \in Conn |-> 0]

-----------------------------------------------------------------------------

\* gecit_sockops: the program does nothing unless it is attached and enabled.
Active == attached /\ enabled

\* cfg->restore_after_bytes: the configured int, cut to 32 bits by pushConfig.
RestoreAfter == RestoreAfterBytes % CounterMod

\* skops->remote_ip4: the address of an IPv4 socket, and no address of an IPv6 one.
remote_ip4(c) == IF dstIp[c] \in V6 THEN Zero ELSE dstIp[c]

\* The early returns of handle_established.
Eligible(c) == remote_ip4(c) \notin excludeIps /\ dstPort[c] \in targetPorts

\* bpf_map_update_elem on the LRU map: a full map gives up one of its entries.
InsertTracked(c) ==
    IF Cardinality(tracked) < MaxEntries
    THEN tracked' = tracked \cup {c}
    ELSE \E v \in tracked : tracked' = (tracked \ {v}) \cup {c}

\* bpf_perf_event_output, whose result is ignored: nothing is delivered while
\* user space has no ring, and a full ring loses the event.
EmitEvent(c) ==
    perf' = IF perfOpen /\ Cardinality(perf) < PerfCap THEN perf \cup {c} ELSE perf

\* handle_established past its early returns: small MSS, event for user space,
\* fresh entry, write-header callback requested.
HandleEstablished(c) ==
    /\ mss' = [mss EXCEPT ![c] = "small"]
    /\ EmitEvent(c)
    /\ InsertTracked(c)
    /\ bytesSent' = [bytesSent EXCEPT ![c] = 0]
    /\ cbFlag' = [cbFlag EXCEPT ![c] = TRUE]

\* BPF_SOCK_OPS_ACTIVE_ESTABLISHED_CB: socket c completes its handshake.
Established(c) ==
    /\ sock[c] = "none"
    /\ sock' = [sock EXCEPT ![c] = "est"]
    /\ \/ /\ Active
          /\ Eligible(c)
          /\ HandleEstablished(c)
       \/ /\ ~(Active /\ Eligible(c))
          /\ UNCHANGED <<mss, perf, tracked, bytesSent, cbFlag>>
    /\ UNCHANGED <<attached, enabled, targetPorts, excludeIps, perfOpen, sent>>

\* The threshold compared with >= instead of >.
HandleWriteHdrOptEarly(c, n) ==
    LET count == (bytesSent[c] + n) % CounterMod
    IN  IF count >= RestoreAfter
        THEN /\ mss' = [mss EXCEPT ![c] = "restored"]
             /\ cbFlag' = [cbFlag EXCEPT ![c] = FALSE]
             /\ tracked' = tracked \ {c}
             /\ UNCHANGED bytesSent
        ELSE /\ bytesSent' = [bytesSent EXCEPT ![c] = count]
             /\ UNCHANGED <<mss, cbFlag, tracked>>

\* handle_write_hdr_opt for a tracked socket and a segment of n bytes: count
\* it, and past the threshold raise the MSS, drop the callback and delete the
\* entry.  mss_restored is set just before its entry is deleted, in the same
\* callback, so no later lookup reads it.
HandleWriteHdrOpt(c, n) ==
    LET count == (bytesSent[c] + n) % CounterMod
    IN  IF count > RestoreAfter
        THEN /\ mss' = [mss EXCEPT ![c] = "restored"]
             /\ cbFlag' = [cbFlag EXCEPT ![c] = FALSE]
             /\ tracked' = tracked \ {c}
             /\ UNCHANGED bytesSent
        ELSE /\ bytesSent' = [bytesSent EXCEPT ![c] = count]
             /\ UNCHANGED <<mss, cbFlag, tracked>>

\* Socket c sends a segment.  For a socket with the callback flag the kernel
\* runs BPF_SOCK_OPS_HDR_OPT_LEN_CB, and BPF_SOCK_OPS_WRITE_HDR_OPT_CB only if
\* that reserved option space.  handle_hdr_opt_len reserves none, so the program
\* sees the segment only when a neighbour reserved space for it, and it returns
\* early when the socket has no entry.
SendSegment(c, n) ==
    /\ sock[c] = "est"
    /\ sent[c] + n <= MaxSent[c]
    /\ sent' = [sent EXCEPT ![c] = @ + n]
    /\ \/ /\ Neighbour
          /\ Active /\ cbFlag[c] /\ c \in tracked
          /\ HandleWriteHdrOpt(c, n)
       \/ UNCHANGED <<mss, cbFlag, tracked, bytesSent>>
    /\ UNCHANGED <<attached, enabled, targetPorts, excludeIps, perfVars, sock>>

\* Socket c closes.  The program asks for no state callback: the entry stays.
CloseSocket(c) ==
    /\ sock[c] = "est"
    /\ sock' = [sock EXCEPT ![c] = "closed"]
    /\ UNCHANGED <<attached, mapVars, perfVars, mss, cbFlag, sent>>

KernelStep ==
    \E c \in Conn :
        \/ Established(c)
        \/ \E n \in SegLens : SendSegment(c, n)
        \/ CloseSocket(c)
=============================================================================
