----------------------------- MODULE MCListing -----------------------------
EXTENDS Listing

\* Four items; as entities two partitions of two rows.
MCName == <<1, 2, 3, 4>>
MCKey == <<<<1, 1>>, <<1, 2>>, <<2, 1>>, <<2, 2>>>>

\* No delimiter; a folder before, behind and between blobs.
MCFoldings == {<<0, 0, 0, 0>>, <<0, 1, 1, 2>>, <<1, 1, 0, 0>>}
MCWheres == {Items, {2, 4}}
=============================================================================
