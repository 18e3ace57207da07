---------------------------- MODULE EpollRegSet ----------------------------
(***************************************************************************)
(* The readiness registration set that ctl.c keeps in struct ctl          *)
(* (reg_set) and drives through epoll_reg_set_add/mod/del.  Its source,   *)
(* epoll_reg_set.c, is not part of src/: the operators below follow the   *)
(* spec (section 2, "Readiness Registration Set").  A registration set is *)
(* a function from descriptors to the interest registered for them, "none" *)
(* meaning the descriptor is not in the multiplexing context.             *)
(***************************************************************************)

Interests == {"none", "in", "out"}

\* epoll_reg_set_add: register fd with interest ev (EPOLLIN or EPOLLOUT).
epoll_reg_set_add(reg, fd, ev) == [reg EXCEPT ![fd] = ev]

\* epoll_reg_set_mod: change the interest of an already registered fd.
epoll_reg_set_mod(reg, fd, ev) == [reg EXCEPT ![fd] = ev]

\* epoll_reg_set_del: remove fd from the multiplexing context.
epoll_reg_set_del(reg, fd) == [reg EXCEPT ![fd] = "none"]

=============================================================================
