-------------------------- MODULE MCSantaRuleSync --------------------------
(* Small instances of SantaRuleSync for TLC.                               *)
EXTENDS SantaRuleSync, TLC

CONSTANTS b1, b2, app,          \* two binaries, a bundle
          c1, c2, c3, c4, c5,   \* cursors
          t1,                   \* a tag
          sn, user

MCTargets == {b1, b2}
MCNoBundles == {}
MCNoBundleBinaries == [b \in {} |-> {}]
MCBundleTargets == {b1, app}
MCBundles == {app}
MCBundleBinaries == [b \in {app} |-> {b1}]
MCBigTargets == {b1, b2, app}
MCBigBundleBinaries == [b \in {app} |-> {b1, b2}]
MCSha256 == [t \in {b1, b2, app} |-> CASE t = b1 -> 1 [] t = b2 -> 2 [] t = app -> 3]

Everywhere == [serial_numbers |-> {}, excluded_serial_numbers |-> {},
               primary_users |-> {}, excluded_primary_users |-> {},
               tags |-> {}, excluded_tags |-> {}]
MCEverywhere == {Everywhere}
MCTagScopes == {Everywhere, [Everywhere EXCEPT !.tags = {t1}]}
MCAllScopes == {[Everywhere EXCEPT !.serial_numbers = {sn}, !.tags = {t1}],
                [Everywhere EXCEPT !.primary_users = {user}, !.excluded_tags = {t1}]}

MCNoTags == {{}}
MCTags == {{}, {t1}}

Allow == {ALLOWLIST}
Block == {BLOCKLIST}
AllowBlock == {ALLOWLIST, BLOCKLIST}

CursorSymmetry == Permutations(Cursors)
=============================================================================
