-------------------------------- MODULE MCServer --------------------------------
EXTENDS Server

\* A booking of two queries and an insert; a rating, whose transaction locks the
\* reservation and then the profile; a report of a visit; an update of a profile.
MCPlans == {<< <<Nil>>, <<Nil>>, <<Nil>> >>,
            << <<"reservation", "profile", Nil>> >>,
            << <<"reservation">> >>,
            << <<"profile">> >>}
=============================================================================
