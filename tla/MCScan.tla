------------------------------- MODULE MCScan -------------------------------
(* Small instances of Scan for TLC. *)
EXTENDS Scan

CONSTANTS r1, r2
TwoReplicas == {r1, r2}
OneEpisode == {1}
TwoEpisodes == {1, 2}
BySorting == <<"1080.avs", "1080.vpy", "2160.avs", "2160.vpy", "ep.m2ts", "ep.mkv",
               "filter.vpy">>
TwoFolders ==
  1 :> {"ep.m2ts", "1080.vpy", "filter.vpy"} @@ 2 :> {"ep.m2ts", "ep.mkv", "1080.vpy", "2160.avs"}
SecondPresent ==
  1 :> {"1080.vpy", "filter.vpy"} @@ 2 :> {"ep.m2ts", "ep.mkv", "1080.vpy", "2160.avs"}

(* Whatever the files of a folder, the script of highest rank is taken, and *)
(* a mux output never passes for the source while a raw one is there.      *)
Rank(s) == CHOOSE i \in 1..4 : s = <<"2160.vpy", "2160.avs", "1080.vpy", "1080.avs">>[i]

ASSUME ChoiceIsBest ==
  \A F \in SUBSET ToSet(Listing) :
    LET ranked == F \cap (Scripts \ {"filter.vpy"}) IN
      /\ ranked # {} =>
           /\ SeenOf[F].script \in ranked
           /\ \A s \in ranked : Rank(SeenOf[F].script) <= Rank(s)
      /\ F \cap RawSource # {} => ChosenSource(SeenOf[F]) \in RawSource

PlainFolder == 1 :> {"ep.m2ts", "2160.avs"}
=============================================================================
