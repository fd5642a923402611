------------------------- MODULE MCBillingSession -------------------------
(* Instances of BillingSession for TLC.                                    *)
EXTENDS BillingSession, TLC

Profile(image, playground, force, pref) ==
    [image |-> image, playground |-> playground, force |-> force, pref |-> pref]

\* One profile for each preference between the sources, with an image request, a
\* playground request and a request that pre-consumes even when it is trusted.
AllProfiles ==
    {Profile(FALSE, FALSE, FALSE, "wallet_only"),
     Profile(FALSE, TRUE, TRUE, "wallet_first"),
     Profile(TRUE, FALSE, FALSE, "subscription_first"),
     Profile(FALSE, TRUE, FALSE, "subscription_only")}

ImageProfiles == {Profile(TRUE, FALSE, FALSE, "wallet_only")}
=============================================================================
