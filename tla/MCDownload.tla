----------------------------- MODULE MCDownload -----------------------------
(* A small instance of Download for TLC. *)
EXTENDS Download

\* Version 1 takes two chunks; version 2 is one byte.
MCLenOf   == <<3, 1>>
MCMtimeOf == <<1, 1>>
=============================================================================
