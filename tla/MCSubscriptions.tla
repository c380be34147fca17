-------------------------- MODULE MCSubscriptions --------------------------
(***************************************************************************)
(* Two feeds of one host, one of them named by a page, and a page that     *)
(* names none.                                                             *)
(***************************************************************************)
EXTENDS Subscriptions, TLC

CONSTANTS f1, f2, blog, bare, site, s1, s2

MCHostOf == (f1 :> site) @@ (f2 :> site)
MCNames == (blog :> f2) @@ (bare :> NoFeed)
MCOutlines ==
  <<[url |-> f1, section |-> s1], [url |-> Mail, section |-> s1], [url |-> blog, section |-> s2]>>
=============================================================================
