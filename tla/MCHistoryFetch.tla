---------------------------- MODULE MCHistoryFetch ----------------------------
(* A small instance of HistoryFetch for TLC. *)
EXTENDS HistoryFetch

\* Four texts of the chat, a service message and a thread between them.
MCKindOf == <<"text", "text", "service", "text", "threaded", "text">>

\* Several messages in a second, also in the first and last of a range.
MCDateOf == <<1, 2, 2, 3, 3, 4>>

\* The whole history, a part that ends in the second of its last text, and a
\* range that ends before it begins.
MCRanges == {<<1, 5>>, <<2, 4>>, <<3, 2>>}
=============================================================================
