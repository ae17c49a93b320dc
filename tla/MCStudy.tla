------------------------------- MODULE MCStudy -------------------------------
EXTENDS StudyProperties

=============================================================================
