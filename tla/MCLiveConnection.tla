--------------------------- MODULE MCLiveConnection ---------------------------
(***************************************************************************)
(* An instance of LiveConnection for TLC: the downloader footer, the       *)
(* notifications and a search.                                             *)
(***************************************************************************)
EXTENDS LiveConnection

CONSTANTS footer, notifications, search

MCSubscribers == {footer, notifications, search}
=============================================================================
