-------------------------------- MODULE Ctl --------------------------------
(***************************************************************************)
(* The control channel of an XCM socket (src/libxcm/ctl.c): a listening   *)
(* SOCK_SEQPACKET socket, a pool of at most MAX_CLIENTS control clients,  *)
(* each alternating between receiving one request and sending its        *)
(* response, the GetAttr/GetAllAttr handlers, and create/process/destroy. *)
(*                                                                         *)
(* The control peers and the kernel's side of their connections (the     *)
(* listen backlog and one message queue per direction) are modelled as   *)
(* the environment, so that peer steps interleave with every step of      *)
(* ctl_process.  ctl_process is single-threaded but not atomic with       *)
(* respect to the peers: each loop iteration, and its recursive restart   *)
(* after a removal, is one step, and the recursion is a stack of frames.  *)
(***************************************************************************)
EXTENDS Naturals, Sequences, FiniteSets, SequencesExt, EpollRegSet

CONSTANTS
    Peers,       \* control clients (model values); a peer's fd is the peer
    ServerFd,    \* the listening descriptor
    NoFd,        \* fd of a slot that never held a client
    Names,       \* attribute names a request can carry (may omit some
                 \* of the table and include names not in it)
    NoName,      \* name of a GetAllAttrCfm entry never written
    Key,         \* XCM_ATTR_TLS_KEY, the one sensitive attribute
    AttrLen,     \* the socket's attribute table: name -> value length
    ValueMax,    \* CTL_ATTR_VALUE_MAX = sizeof(any_value)
    MaxAttrs,    \* CTL_PROTO_MAX_ATTRS
    MaxClients,  \* MAX_CLIENTS
    Backlog,     \* listen(server_fd, 2)
    QCap,        \* requests the kernel queues towards the server
    RCap,        \* responses the kernel queues towards a peer
    MaxReq,      \* requests a peer sends in a behaviour (bound)
    EnvFailSteps \* steps of create_ux whose call the environment may fail

ASSUME /\ EnvFailSteps \subseteq {"stat", "notdir", "socket", "bind", "listen"}
       /\ Key \in Names /\ NoName \notin Names \cup DOMAIN AttrLen
       /\ MaxClients \in Nat \ {0} /\ MaxAttrs \in Nat \ {0}
       /\ {ServerFd, NoFd} \cap Peers = {}

Attrs == DOMAIN AttrLen
Fds == Peers \cup {ServerFd}
Lens == 0 .. (ValueMax + 1)
Slots == 0 .. (MaxAttrs - 1)
Errnos == {"none", "ENOENT", "EACCES", "EOVERFLOW"}

\* struct ctl_proto_msg as a response buffer.  key_in_value: the bytes of
\* the key's value are in get_attr_cfm.attr.any_value; attrs[k].name =
\* Key: the key's entry is in get_all_attr_cfm.attrs.
Msg == [type: {"none", "cfm", "rej", "all"}, len: Lens, errno: Errnos,
        key_in_value: BOOLEAN, attrs_len: 0 .. MaxAttrs,
        attrs: [Slots -> [name: Names \cup Attrs \cup {NoName}, len: Lens]]]
ZeroMsg == [type |-> "none", len |-> 0, errno |-> "none",
            key_in_value |-> FALSE, attrs_len |-> 0,
            attrs |-> [k \in Slots |-> [name |-> NoName, len |-> 0]]]

\* Requests as the peer sends them: a full-size GetAttrReq or
\* GetAllAttrReq, a short message, or a full-size one with an unknown tag.
Reqs == [type: {"get"}, name: Names]
          \cup [type: {"all", "short", "badtype"}, name: {NoName}]

\* struct client
Client == [fd: Peers \cup {NoFd}, pending: BOOLEAN, resp: Msg]

VARIABLES
    life,     \* "init" | "up" (ctl != NULL) | "failed" | "destroyed"
    path,     \* the control socket's filesystem entry exists
    owned,    \* the owner argument of ctl_destroy
    ctl,      \* struct ctl: server_fd, clients[], num_clients, reg_set
    stack,    \* frames of the running (recursive) ctl_process calls
    aborted,  \* a ut_assert failed: the process aborted
    backlog,  \* connections queued on the listening socket
    sside,    \* server side of each peer's connection
    pside,    \* peer side of each peer's connection
    toSrv,    \* requests queued towards the server
    toPeer,   \* responses queued towards the peer
    asked,    \* history: requests each peer sent
    got       \* history: responses each peer received

vars == <<life, path, owned, ctl, stack, aborted, backlog, sside, pside,
          toSrv, toPeer, asked, got>>
peerVars == <<backlog, sside, pside, toSrv, toPeer, asked, got>>

-----------------------------------------------------------------------------
(* Request handlers *)

\* is_sensitive
is_sensitive(n) == n = Key

\* clear_attr: memset(attr->any_value, 0, CTL_ATTR_VALUE_MAX)
clear_attr(res) == [res EXCEPT !.key_in_value = FALSE]

\* Mutant: the sensitive value is rejected but not cleared.
process_get_attr_no_clear(n, res) ==
    LET rc_ok  == n \in Attrs /\ AttrLen[n] <= ValueMax
        errno  == IF n \notin Attrs THEN "ENOENT" ELSE "EOVERFLOW"
        staged == [res EXCEPT !.key_in_value = @ \/ (rc_ok /\ n = Key)]
    IN  IF is_sensitive(n)
        THEN [staged EXCEPT !.type = "rej", !.errno = "EACCES"]
        ELSE IF rc_ok
             THEN [staged EXCEPT !.type = "cfm", !.len = AttrLen[n]]
             ELSE [staged EXCEPT !.type = "rej", !.errno = errno]

\* process_get_attr.  xcm_attr_get copies the value into any_value when it
\* fits (else EOVERFLOW) and leaves the buffer alone when the name is
\* unknown (ENOENT); a sensitive name is then cleared and rejected.
process_get_attr(n, res) ==
    LET rc_ok  == n \in Attrs /\ AttrLen[n] <= ValueMax
        errno  == IF n \notin Attrs THEN "ENOENT" ELSE "EOVERFLOW"
        staged == [res EXCEPT !.key_in_value = @ \/ (rc_ok /\ n = Key)]
    IN  IF is_sensitive(n)
        THEN [clear_attr(staged) EXCEPT !.type = "rej", !.errno = "EACCES"]
        ELSE IF rc_ok
             THEN [staged EXCEPT !.type = "cfm", !.len = AttrLen[n]]
             ELSE [staged EXCEPT !.type = "rej", !.errno = errno]

\* add_attr, the visitor of xcm_attr_get_all.  It writes attrs[attrs_len],
\* increments attrs_len, asserts attrs_len < CTL_PROTO_MAX_ATTRS, and
\* asserts value_len < sizeof(any_value) on the slot's value_len *before*
\* the copy (the value left there by an earlier response), then copies len
\* bytes.  cfm.abort records a failed ut_assert.
add_attr(cfm, a) ==
    IF cfm.abort \/ is_sensitive(a) THEN cfm
    ELSE LET k == cfm.msg.attrs_len IN
         IF k + 1 >= MaxAttrs \/ cfm.msg.attrs[k].len >= ValueMax
         THEN [cfm EXCEPT !.abort = TRUE]
         ELSE [cfm EXCEPT !.msg.attrs_len = k + 1,
                          !.msg.attrs[k] = [name |-> a, len |-> AttrLen[a]]]

\* process_get_all_attr: attrs_len = 0, then xcm_attr_get_all visits every
\* attribute once, in the order given.  Nothing writes response->type: it
\* keeps what the slot's buffer held, calloc's zero ("none") or the tag of
\* an earlier response.
process_get_all_attr(res, order) ==
    FoldLeft(add_attr, [abort |-> FALSE, msg |-> [res EXCEPT !.attrs_len = 0]],
             order)

-----------------------------------------------------------------------------
(* Pool operations on struct ctl *)

\* Mutant: the freed slot is not filled with the last one.
remove_client_no_compact(c, i) ==
    LET reg1 == epoll_reg_set_del(c.reg, c.clients[i].fd)
    IN  [c EXCEPT
           !.reg = IF c.num_clients = MaxClients
                   THEN epoll_reg_set_add(reg1, ServerFd, "in") ELSE reg1,
           !.num_clients = @ - 1]

\* Mutant: the listener is not re-armed when a full pool frees a slot.
remove_client_no_rearm(c, i) ==
    LET last == c.num_clients
    IN  [c EXCEPT
           !.clients = IF i # last THEN [@ EXCEPT ![i] = c.clients[last]]
                                   ELSE @,
           !.reg = epoll_reg_set_del(@, c.clients[i].fd),
           !.num_clients = @ - 1]

\* remove_client: deregister and close (the caller closes) the fd, move the
\* last slot into the freed one, re-arm the listener if the pool was full.
remove_client(c, i) ==
    LET last == c.num_clients
        reg1 == epoll_reg_set_del(c.reg, c.clients[i].fd)
    IN  [c EXCEPT
           !.clients = IF i # last THEN [@ EXCEPT ![i] = c.clients[last]]
                                   ELSE @,
           !.reg = IF c.num_clients = MaxClients
                   THEN epoll_reg_set_add(reg1, ServerFd, "in") ELSE reg1,
           !.num_clients = @ - 1]

\* Mutant: while (num_clients > 1), leaving the last client behind.
RECURSIVE remove_all_but_one(_)
remove_all_but_one(c) ==
    IF c.num_clients > 1 THEN remove_all_but_one(remove_client(c, 1)) ELSE c

\* The loop of ctl_destroy: while (num_clients > 0) remove_client(ctl, 0).
RECURSIVE remove_all(_)
remove_all(c) == IF c.num_clients > 0 THEN remove_all(remove_client(c, 1))
                                      ELSE c

\* Mutant: the listener stays registered when the pool becomes full.
accept_client_keep_listener(c, p) ==
    LET n == c.num_clients + 1
    IN  [c EXCEPT
           !.reg = epoll_reg_set_add(@, p, "in"),
           !.clients[n] = [@ EXCEPT !.fd = p, !.pending = FALSE],
           !.num_clients = n]

\* Mutant: the slot's response-pending flag is not reset on accept.
accept_client_stale_pending(c, p) ==
    LET n    == c.num_clients + 1
        reg1 == epoll_reg_set_add(c.reg, p, "in")
    IN  [c EXCEPT
           !.reg = IF n = MaxClients THEN epoll_reg_set_del(reg1, ServerFd)
                                     ELSE reg1,
           !.clients[n] = [@ EXCEPT !.fd = p],
           !.num_clients = n]

\* accept_client after a successful ut_accept of fd p.
accept_client(c, p) ==
    LET n    == c.num_clients + 1
        reg1 == epoll_reg_set_add(c.reg, p, "in")
    IN  [c EXCEPT
           !.reg = IF n = MaxClients THEN epoll_reg_set_del(reg1, ServerFd)
                                     ELSE reg1,
           !.clients[n] = [@ EXCEPT !.fd = p, !.pending = FALSE],
           !.num_clients = n]

PoolFds(c) == {c.clients[k].fd : k \in 1 .. c.num_clients}

-----------------------------------------------------------------------------
(* Initial state: before ctl_create.  A stale entry may exist at the path  *)
(* ctl_derive_path yields (left by an earlier process with the same pid).  *)

Init ==
    /\ life = "init"
    /\ path \in BOOLEAN
    /\ owned = FALSE
    /\ ctl = [server_fd   |-> "closed",
              clients     |-> [k \in 1 .. MaxClients |->
                                 [fd |-> NoFd, pending |-> FALSE,
                                  resp |-> ZeroMsg]],
              num_clients |-> 0,
              reg         |-> [f \in Fds |-> "none"]]
    /\ stack = <<>>
    /\ aborted = FALSE
    /\ backlog = <<>>
    /\ sside = [p \in Peers |-> "none"]
    /\ pside = [p \in Peers |-> "idle"]
    /\ toSrv = [p \in Peers |-> <<>>]
    /\ toPeer = [p \in Peers |-> <<>>]
    /\ asked = [p \in Peers |-> <<>>]
    /\ got = [p \in Peers |-> <<>>]

-----------------------------------------------------------------------------
(* ctl_create and create_ux.  failAt is the step of create_ux that fails:  *)
(* stat of the directory, S_ISDIR, socket, bind, listen, or none.  The     *)
(* stale path is unlinked before socket(); bind creates the entry; a       *)
(* listen failure unlinks it again.  Besides the failures the environment  *)
(* may cause (EnvFailSteps), bind fails with EADDRINUSE whenever an entry  *)
(* exists at the path.                                                     *)

CreateSteps == {"none", "stat", "notdir", "socket", "bind", "listen"}

unlink_stale_missing(exists) == exists

\* unlink(addr.sun_path): whether an entry exists at the path afterwards.
unlink_stale(exists) == FALSE

\* The steps at which create_ux can fail, given whether an entry exists at
\* the path when bind is called.
CreateOutcomes(atBind) ==
    IF atBind THEN {"bind"} \cup (EnvFailSteps \cap {"stat", "notdir", "socket"})
    ELSE {"none"} \cup EnvFailSteps

\* Mutant: a failed listen jumps to err_close, past the unlink.
ctl_create_listen_no_unlink ==
    /\ life = "init"
    /\ LET atBind == unlink_stale(path) IN
       \E failAt \in CreateOutcomes(atBind) :
         /\ path' = CASE failAt \in {"stat", "notdir"} -> path
                       [] failAt \in {"socket", "bind"} -> atBind
                       [] failAt \in {"listen", "none"} -> TRUE
         /\ life' = IF failAt = "none" THEN "up" ELSE "failed"
         /\ ctl' = IF failAt = "none"
                   THEN [ctl EXCEPT !.server_fd = "open",
                                    !.reg = epoll_reg_set_add(@, ServerFd, "in")]
                   ELSE ctl
    /\ UNCHANGED <<owned, stack, aborted, peerVars>>

ctl_create ==
    /\ life = "init"
    /\ LET atBind == unlink_stale(path) IN
       \E failAt \in CreateOutcomes(atBind) :
         /\ path' = CASE failAt \in {"stat", "notdir"} -> path
                       [] failAt \in {"socket", "bind"} -> atBind
                       [] failAt = "listen" -> FALSE
                       [] failAt = "none" -> TRUE
         /\ life' = IF failAt = "none" THEN "up" ELSE "failed"
         /\ ctl' = IF failAt = "none"
                   THEN [ctl EXCEPT !.server_fd = "open",
                                    !.reg = epoll_reg_set_add(@, ServerFd, "in")]
                   ELSE ctl
    /\ UNCHANGED <<owned, stack, aborted, peerVars>>

-----------------------------------------------------------------------------
(* ctl_process.  A frame [i, step] is one activation: the index of the     *)
(* next client of the for loop, then the trailing accept_client.  After a  *)
(* removal the code calls ctl_process recursively and, when that returns,  *)
(* carries on with i++ in the caller: the caller's frame is advanced and a *)
(* fresh frame pushed.                                                     *)

Top == stack[Len(stack)]
Advanced == [stack EXCEPT ![Len(stack)].i = @ + 1]
Pop == SubSeq(stack, 1, Len(stack) - 1)
Running == stack # <<>> /\ ~aborted

ctl_process ==
    /\ life = "up" /\ stack = <<>> /\ ~aborted
    /\ stack' = <<[i |-> 1, step |-> "scan"]>>
    /\ UNCHANGED <<life, path, owned, ctl, aborted, peerVars>>

\* Mutant: a -1 from process_client closes the fd but leaves the slot.
Fail_no_remove(i) ==
    LET p == ctl.clients[i].fd IN
    /\ sside' = [sside EXCEPT ![p] = "closed"]
    /\ toSrv' = [toSrv EXCEPT ![p] = <<>>]
    /\ stack' = Advanced
    /\ UNCHANGED <<ctl, aborted, backlog, pside, toPeer, asked, got>>

\* process_client returned -1: remove_client (closing the fd discards what
\* the peer queued), then the recursive ctl_process.
Fail(i) ==
    LET p == ctl.clients[i].fd IN
    /\ ctl' = remove_client(ctl, i)
    /\ sside' = [sside EXCEPT ![p] = "closed"]
    /\ toSrv' = [toSrv EXCEPT ![p] = <<>>]
    /\ stack' = Append(Advanced, [i |-> 1, step |-> "scan"])
    /\ UNCHANGED <<aborted, backlog, pside, toPeer, asked, got>>

\* process_client returned 0 without touching anything (EAGAIN).
Again ==
    /\ stack' = Advanced
    /\ UNCHANGED <<ctl, aborted, peerVars>>

\* Mutant: the response is staged but EPOLLOUT is never armed.
Respond_no_arm(i, res) ==
    LET p == ctl.clients[i].fd IN
    /\ ctl' = [ctl EXCEPT !.clients[i].pending = TRUE,
                          !.clients[i].resp = res]
    /\ toSrv' = [toSrv EXCEPT ![p] = Tail(@)]
    /\ stack' = Advanced
    /\ UNCHANGED <<aborted, backlog, sside, pside, toPeer, asked, got>>

\* A whole request was read and handled: arm EPOLLOUT, stage the response.
Respond(i, res) ==
    LET p == ctl.clients[i].fd IN
    /\ ctl' = [ctl EXCEPT !.clients[i].pending = TRUE,
                          !.clients[i].resp = res,
                          !.reg = epoll_reg_set_mod(@, p, "out")]
    /\ toSrv' = [toSrv EXCEPT ![p] = Tail(@)]
    /\ stack' = Advanced
    /\ UNCHANGED <<aborted, backlog, sside, pside, toPeer, asked, got>>

\* process_client, response pending: send the whole message.
process_client_send(i) ==
    LET p == ctl.clients[i].fd IN
    \/ /\ pside[p] = "closed"                   \* EPIPE
       /\ Fail(i)
    \/ /\ pside[p] # "closed" /\ Len(toPeer[p]) >= RCap   \* EAGAIN
       /\ Again
    \/ /\ pside[p] # "closed" /\ Len(toPeer[p]) < RCap
       /\ toPeer' = [toPeer EXCEPT ![p] = Append(@, ctl.clients[i].resp)]
       /\ ctl' = [ctl EXCEPT !.clients[i].pending = FALSE,
                             !.reg = epoll_reg_set_mod(@, p, "in")]
       /\ stack' = Advanced
       /\ UNCHANGED <<aborted, backlog, sside, pside, toSrv, asked, got>>

\* process_client, no response pending: receive one request.
process_client_recv(i) ==
    LET p   == ctl.clients[i].fd
        req == Head(toSrv[p])
        res == ctl.clients[i].resp
    IN
    \/ /\ toSrv[p] = <<>> /\ pside[p] # "closed"     \* EAGAIN
       /\ Again
    \/ /\ toSrv[p] = <<>> /\ pside[p] = "closed"     \* rc == 0
       /\ Fail(i)
    \/ /\ toSrv[p] # <<>> /\ req.type \in {"short", "badtype"}
       /\ Fail(i)                                    \* malformed
    \/ /\ toSrv[p] # <<>> /\ req.type = "get"
       /\ Respond(i, process_get_attr(req.name, res))
    \/ /\ toSrv[p] # <<>> /\ req.type = "all"
       /\ \E order \in SetToSeqs(Attrs) :
            LET out == process_get_all_attr(res, order) IN
            IF out.abort
            THEN aborted' = TRUE /\ UNCHANGED <<ctl, stack, peerVars>>
            ELSE Respond(i, out.msg)

process_client(i) ==
    IF ctl.clients[i].pending THEN process_client_send(i)
                              ELSE process_client_recv(i)

\* One iteration of the for loop of ctl_process.
ScanClient ==
    /\ Running /\ Top.step = "scan" /\ Top.i <= ctl.num_clients
    /\ process_client(Top.i)
    /\ UNCHANGED <<life, path, owned>>

ScanDone ==
    /\ Running /\ Top.step = "scan" /\ Top.i > ctl.num_clients
    /\ stack' = [stack EXCEPT ![Len(stack)].step = "accept"]
    /\ UNCHANGED <<life, path, owned, ctl, aborted, peerVars>>

\* The tail of ctl_process when no connection is taken: the pool is full
\* (the listener is deregistered), the listener is not readable, or
\* ut_accept fails (logged, ignored); the last may happen in any state.
AcceptNone ==
    /\ Running /\ Top.step = "accept"
    /\ stack' = Pop
    /\ UNCHANGED <<life, path, owned, ctl, aborted, peerVars>>

\* Mutant: ctl_process calls accept_client without checking for a free slot.
AcceptOk_unguarded ==
    /\ Running /\ Top.step = "accept"
    /\ backlog # <<>>
    /\ LET p == Head(backlog) IN
       /\ ctl' = accept_client(ctl, p)
       /\ backlog' = Tail(backlog)
       /\ sside' = [sside EXCEPT ![p] = "accepted"]
    /\ stack' = Pop
    /\ UNCHANGED <<life, path, owned, aborted, pside, toSrv, toPeer, asked,
                   got>>

\* accept_client taking the oldest queued connection.
AcceptOk ==
    /\ Running /\ Top.step = "accept"
    /\ ctl.num_clients < MaxClients /\ backlog # <<>>
    /\ LET p == Head(backlog) IN
       /\ ctl' = accept_client(ctl, p)
       /\ backlog' = Tail(backlog)
       /\ sside' = [sside EXCEPT ![p] = "accepted"]
    /\ stack' = Pop
    /\ UNCHANGED <<life, path, owned, aborted, pside, toSrv, toPeer, asked,
                   got>>

\* ctl_destroy(ctl, owner): remove every client, close the listener
\* (which resets the connections still queued on it), unlink if owner.
ctl_destroy ==
    /\ life = "up" /\ stack = <<>> /\ ~aborted
    /\ \E owner \in BOOLEAN :
         LET c      == remove_all(ctl)
             closed == (PoolFds(ctl) \ PoolFds(c)) \cup Range(backlog)
         IN  /\ ctl' = [c EXCEPT !.server_fd = "closed"]
             /\ sside' = [p \in Peers |->
                            IF p \in closed THEN "closed" ELSE sside[p]]
             /\ toSrv' = [p \in Peers |->
                            IF p \in closed THEN <<>> ELSE toSrv[p]]
             /\ backlog' = <<>>
             /\ path' = (path /\ ~owner)
             /\ owned' = owner
             /\ life' = "destroyed"
    /\ UNCHANGED <<stack, aborted, pside, toPeer, asked, got>>

-----------------------------------------------------------------------------
(* The control peers and the kernel.  A SOCK_SEQPACKET connect() succeeds  *)
(* as soon as the connection is queued on the listener, and the peer may   *)
(* send before it is accepted.                                             *)

Connect(p) ==
    /\ life = "up" /\ pside[p] = "idle" /\ Len(backlog) < Backlog
    /\ backlog' = Append(backlog, p)
    /\ sside' = [sside EXCEPT ![p] = "queued"]
    /\ pside' = [pside EXCEPT ![p] = "open"]
    /\ UNCHANGED <<life, path, owned, ctl, stack, aborted, toSrv, toPeer,
                   asked, got>>

SendReq(p) ==
    /\ pside[p] = "open" /\ sside[p] \in {"queued", "accepted"}
    /\ Len(toSrv[p]) < QCap /\ Len(asked[p]) < MaxReq
    /\ \E r \in Reqs :
         /\ toSrv' = [toSrv EXCEPT ![p] = Append(@, r)]
         /\ asked' = [asked EXCEPT ![p] = Append(@, r)]
    /\ UNCHANGED <<life, path, owned, ctl, stack, aborted, backlog, sside,
                   pside, toPeer, got>>

Receive(p) ==
    /\ pside[p] = "open" /\ toPeer[p] # <<>>
    /\ got' = [got EXCEPT ![p] = Append(@, Head(toPeer[p]))]
    /\ toPeer' = [toPeer EXCEPT ![p] = Tail(@)]
    /\ UNCHANGED <<life, path, owned, ctl, stack, aborted, backlog, sside,
                   pside, toSrv, asked>>

\* Closing drops what the peer had not read.
Close(p) ==
    /\ pside[p] = "open"
    /\ pside' = [pside EXCEPT ![p] = "closed"]
    /\ toPeer' = [toPeer EXCEPT ![p] = <<>>]
    /\ UNCHANGED <<life, path, owned, ctl, stack, aborted, backlog, sside,
                   toSrv, asked, got>>

\* Without a control channel nothing more happens on it.
Stopped ==
    /\ life \in {"failed", "destroyed"}
    /\ UNCHANGED vars

Next ==
    /\ ~aborted
    /\ \/ ctl_create \/ ctl_process \/ ScanClient \/ ScanDone
       \/ AcceptNone \/ AcceptOk \/ ctl_destroy
       \/ \E p \in Peers : Connect(p) \/ SendReq(p) \/ Receive(p) \/ Close(p)
       \/ Stopped

\* The owner calls ctl_process on every readiness notification of the
\* epoll instance (level-triggered): some registered fd is ready.
Ready ==
    \/ ctl.reg[ServerFd] = "in" /\ backlog # <<>>
    \/ \E p \in PoolFds(ctl) :
         \/ ctl.reg[p] = "in" /\ (toSrv[p] # <<>> \/ pside[p] = "closed")
         \/ ctl.reg[p] = "out" /\ (Len(toPeer[p]) < RCap \/ pside[p] = "closed")

\* ctl_process runs to completion once called; ut_accept errors are
\* transient; a control client waiting for a response reads it.
Fairness ==
    /\ WF_vars(Ready /\ ctl_process)
    /\ WF_vars(ScanClient) /\ WF_vars(ScanDone) /\ WF_vars(AcceptNone)
    /\ SF_vars(AcceptOk)
    /\ \A p \in Peers : WF_vars(Receive(p))

Spec == Init /\ [][Next]_vars
FairSpec == Spec /\ Fairness

-----------------------------------------------------------------------------
(* Properties *)

TypeOK ==
    /\ life \in {"init", "up", "failed", "destroyed"}
    /\ path \in BOOLEAN /\ owned \in BOOLEAN /\ aborted \in BOOLEAN
    /\ ctl \in [server_fd: {"open", "closed"},
                clients: [1 .. MaxClients -> Client],
                num_clients: 0 .. MaxClients,
                reg: [Fds -> Interests]]
    /\ stack \in Seq([i: 1 .. MaxClients + 1, step: {"scan", "accept"}])
    /\ backlog \in Seq(Peers)
    /\ sside \in [Peers -> {"none", "queued", "accepted", "closed"}]
    /\ pside \in [Peers -> {"idle", "open", "closed"}]
    /\ toSrv \in [Peers -> Seq(Reqs)] /\ asked \in [Peers -> Seq(Reqs)]
    /\ toPeer \in [Peers -> Seq(Msg)] /\ got \in [Peers -> Seq(Msg)]

\* The spec's Endpoint invariant, extended to the clients: while the
\* channel is up the listener is registered for EPOLLIN exactly when the
\* pool has a free slot, each pooled client is registered for EPOLLOUT
\* exactly when its response is pending and for EPOLLIN otherwise, and no
\* other peer fd is registered.  accept_client and remove_client keep this
\* at the capacity boundary, process_client when it switches interest.
RegistrationConsistent ==
    life = "up" =>
      /\ ctl.reg[ServerFd] = IF ctl.num_clients < MaxClients THEN "in"
                                                             ELSE "none"
      /\ \A k \in 1 .. ctl.num_clients :
           ctl.reg[ctl.clients[k].fd] =
             IF ctl.clients[k].pending THEN "out" ELSE "in"
      /\ \A p \in Peers \ PoolFds(ctl) : ctl.reg[p] = "none"

\* The pool (clients[0 .. num_clients-1]) holds every connection the
\* server has accepted and not closed, each in exactly one slot, across
\* the swap-remove compaction of remove_client and the restarted scans.
PoolMatchesConnections ==
    /\ PoolFds(ctl) = {p \in Peers : sside[p] = "accepted"}
    /\ Cardinality(PoolFds(ctl)) = ctl.num_clients

\* The reply the spec (4.4) requires to a request, given the table.  Of a
\* GetAllAttr reply only the entries are compared: its tag is the subject
\* of AllAttrTagged.
EntriesOf(m) == {<<m.attrs[k].name, m.attrs[k].len>> : k \in 0 .. m.attrs_len - 1}
Answers(r, m) ==
    CASE r.type \in {"short", "badtype"} -> FALSE
      [] r.type = "all" ->
           EntriesOf(m) = {<<a, AttrLen[a]>> : a \in Attrs \ {Key}}
      [] r.name = Key -> m.type = "rej" /\ m.errno = "EACCES"
      [] r.name \notin Attrs -> m.type = "rej" /\ m.errno = "ENOENT"
      [] AttrLen[r.name] > ValueMax -> m.type = "rej" /\ m.errno = "EOVERFLOW"
      [] OTHER -> m.type = "cfm" /\ m.len = AttrLen[r.name]

\* Each peer receives, in order, one correct reply per request it sent and
\* nothing else: no response is lost, duplicated, stale (left in a reused
\* slot or buffer) or sent on another client's connection, and a request
\* after a malformed one is never answered.
ResponsesMatchRequests ==
    \A p \in Peers :
      LET delivered == got[p] \o toPeer[p] IN
      /\ Len(delivered) <= Len(asked[p])
      /\ \A k \in 1 .. Len(delivered) : Answers(asked[p][k], delivered[k])

\* A reply to GetAllAttr carries the GetAllAttrCfm tag (spec 4.4, 6), so
\* that the peer decodes its entries: process_get_all_attr must set
\* response->type, whatever the slot's buffer held before (calloc's zero,
\* or the GetAttrCfm/Rej of an earlier request of this or a removed client).
AllAttrTagged ==
    \A p \in Peers : \A k \in 1 .. Len(got[p]) :
      k <= Len(asked[p]) /\ asked[p][k].type = "all" => got[p][k].type = "all"

\* The bytes of the TLS key never reach a peer: neither in the value of a
\* GetAttr response (process_get_attr must clear it before the response is
\* queued) nor as an entry of a GetAllAttr response (add_attr skips it),
\* including stale parts of a reused response buffer.
NoKeyOnWire ==
    \A p \in Peers : \A m \in Range(got[p] \o toPeer[p]) :
      /\ ~m.key_in_value
      /\ \A k \in Slots : m.attrs[k].name # Key

\* After ctl_destroy every connection the channel had (pooled or still
\* queued on the listener) is closed, the listener is closed, and the path
\* is gone exactly when the destroyer was the owner; while up, the
\* listener is open and bound to an existing path.
DestroyReleasesAll ==
    /\ (ctl.server_fd = "open") = (life = "up")
    /\ life = "up" => path
    /\ life = "destroyed" =>
         /\ \A p \in Peers : sside[p] \in {"none", "closed"}
         /\ path = ~owned

\* A ctl_create that fails leaves no socket file of its own behind: the
\* unwind of create_ux unlinks the path it bound when listen fails
\* (err_unlink) and returns before bind otherwise, so a failing step
\* never turns a missing entry into an existing one.
FailedCreateLeavesNoEntry ==
    [][life = "init" /\ life' = "failed" => (path' => path)]_vars

\* A socket file that a crashed process with the same pid left at the path
\* ctl_derive_path yields never makes ctl_create fail: create_ux unlinks it
\* before bind, so where no call of the environment fails, the channel
\* comes up whether or not such an entry existed.
StaleEntryHarmless == EnvFailSteps = {} => life # "failed"

\* Every request of an accepted client is eventually answered unless the
\* connection is closed by either side.
AcceptedRequestAnswered ==
    \A p \in Peers : \A k \in 1 .. MaxReq :
      (sside[p] = "accepted" /\ Len(asked[p]) >= k)
        ~> (Len(got[p]) >= k \/ sside[p] = "closed" \/ pside[p] = "closed")

\* A connection queued on the listener is eventually accepted (or reset),
\* being deferred only while the pool is full.
QueuedConnectionAccepted ==
    \A p \in Peers :
      sside[p] = "queued" ~> (sside[p] # "queued" \/ ctl.num_clients = MaxClients)

\* Spec 4.4: a value longer than any_value is an internal-invariant
\* violation that must abort "rather than silently truncate"; add_attr must
\* never copy more than sizeof(any_value) bytes into an entry.
NoOversizeCopy ==
    \A k \in 1 .. MaxClients : \A j \in Slots :
      ctl.clients[k].resp.attrs[j].len <= ValueMax

\* Spec 4.4 and 7: the process aborts only when the attribute table breaks
\* the static bounds; a table whose values fit any_value and whose entries
\* fit attrs[] is enumerated by every GetAllAttr without an abort.
NeverAborts == ~aborted

=============================================================================
