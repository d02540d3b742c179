--------------------------- MODULE MCSettingsPatch ---------------------------
EXTENDS OrgSettings, TLC

MCUpdates == {"hours" :> "early", "hours" :> "late", "match" :> "high",
              "hours" :> "late" @@ "match" :> "high"}
MCHours   == {"hours"}
=============================================================================
